---- MODULE Spec2Model ----
(***************************************************************************)
(* Model of the AI-pplicant interview page: the conversation log kept by   *)
(* addMessageToConversation (two variants of page.tsx are in the           *)
(* repository), and the audio sequencing of page.tsx with AudioPlayer.tsx. *)
(***************************************************************************)
EXTENDS Integers, Sequences, FiniteSets, TLC

VARIABLES
    variant,                \* which page.tsx the run is of: "part_002", "part_003" or "page"
    conversation,           \* useState<ConversationMessage[]>
    lastMessageId,          \* page.tsx: useState<string | null>
    processingFeedback,     \* part_002: useState(false)
    isSpeaking,             \* useState(false)
    lastAudioMessageIdRef,  \* useRef<number | null>
    playedMessages,         \* AudioPlayer.tsx: module-level Set<number>
    players,                \* AudioPlayer instances and their playAudioOnce calls
    timers,                 \* pending setTimeout callbacks of Home
    started,                \* useState(false): the interview view is shown
    isSubmittingAnswer,     \* part_002: useState(false)
    session,                \* handleStartInterview calls so far: the Date.now() of the ids
    listeningForVoice,      \* page.tsx: useState(false)
    rec,                    \* VoiceRecorder.tsx: its state and its recognizers
    form,                   \* Home: the fields of the form, error, the question index
    api,                    \* a request to a route handler and its response
    hist                    \* observation only: what the last step did

vars == <<variant, conversation, lastMessageId, processingFeedback, isSubmittingAnswer, isSpeaking,
          lastAudioMessageIdRef, playedMessages, players, timers, started, session,
          listeningForVoice, rec, form, api, hist>>

(***************************************************************************)
(* Bounds of the model.                                                    *)
(***************************************************************************)
\* turns in the log of part_002
MaxLog == 4
\* turns in the log of page.tsx
MaxLogPage == 2
\* AudioPlayer instances with work to come when the user acts
MaxPlayers == 2
\* interviews started
MaxSessions == 1
\* SpecVoice: segments of speech, SpeechRecognition objects, turns of the log
MaxSpeech == 3
MaxInstances == 4
MaxLogVoice == 4
MaxLogInput == 3
MaxQuestions == 2
MaxRequests == 3
\* SpecFlow: answers submitted
MaxAnswers == 2

(***************************************************************************)
(* Values.                                                                 *)
(***************************************************************************)
\* message.messageId absent (falsy): an id is generated
NoId == 0
\* message.timestamp absent (falsy): Date.now() is taken
NoStamp == 0
\* useRef<number | null>(null), and the -1 of the index searches
Null == -1
\* the gap a question keeps after a trailing feedback turn
FeedbackGap == 2000

Roles == {"interviewer", "candidate", "feedback"}
Contents == {"a", "b"}
ExplicitIds == {1}
\* message.timestamp given by the caller: earlier than the Date.now() that a
\* message without timestamp gets, so that turns arrive out of order
Stamps == {1000}
DateNow == {2000}

\* The messages the callers may pass: any role, content, id and timestamp.
AddInputs ==
    { m \in [role : Roles, content : Contents, question : BOOLEAN,
             needsAudioPlay : BOOLEAN, messageId : ExplicitIds \cup {NoId},
             timestamp : Stamps \cup {NoStamp}] :
        /\ m.question => m.role = "interviewer"
        /\ m.needsAudioPlay = (m.role # "candidate") }

(***************************************************************************)
(* Array.prototype.sort with (a, b) => (a.timestamp||0) - (b.timestamp||0):*)
(* a stable sort by timestamp.                                             *)
(***************************************************************************)
StampOf(m) == IF m.timestamp = NoStamp THEN 0 ELSE m.timestamp

RECURSIVE InsertStable(_, _)
InsertStable(sorted, m) ==
    IF sorted = <<>> THEN <<m>>
    ELSE IF StampOf(sorted[Len(sorted)]) <= StampOf(m) THEN Append(sorted, m)
    ELSE Append(InsertStable(SubSeq(sorted, 1, Len(sorted) - 1), m), sorted[Len(sorted)])

\* the log left in arrival order
SortNone(s) == s

RECURSIVE SortByTimestamp(_)
SortByTimestamp(s) ==
    IF s = <<>> THEN <<>>
    ELSE CHOOSE r \in {InsertStable(head, s[Len(s)]) :
                          head \in {SortByTimestamp(SubSeq(s, 1, Len(s) - 1))}} : TRUE

(***************************************************************************)
(* Index searches of the guards (0-based as in the code, Null when none).  *)
(***************************************************************************)
IsCandidate(m) == m.role = "candidate"
IsQuestion(m) == m.role = "interviewer" /\ m.question

\* the last index of a set of 1-based positions, 0-based; Null of none
LastOf(S) == IF S = {} THEN Null ELSE (CHOOSE i \in S : \A j \in S : j <= i) - 1

LastCandidateIndex(conv) == LastOf({i \in 1..Len(conv) : IsCandidate(conv[i])})
LastInterviewerIndex(conv) == LastOf({i \in 1..Len(conv) : IsQuestion(conv[i])})

(***************************************************************************)
(* The head of addMessageToConversation, the same in both variants.        *)
(***************************************************************************)
\* `${role}-${Date.now()}-${random}`: an id no other turn carries.  The log
\* holds one turn per (role, content) at most, so the generated id is named
\* after that pair: two turns of the log never share it.
GenerateId(message) ==
    100 + (IF message.role = "interviewer" THEN 0
           ELSE IF message.role = "candidate" THEN 2 ELSE 4)
        + (IF message.content = "a" THEN 1 ELSE 2)

\* completeMessage = {...message, messageId, timestamp}
Complete(message, now) ==
    [message EXCEPT
        !.messageId = IF message.messageId = NoId THEN GenerateId(message)
                      ELSE message.messageId,
        !.timestamp = IF message.timestamp = NoStamp THEN now ELSE message.timestamp]

\* only the id is compared
ExactDuplicateById(prev, m) ==
    \E i \in 1..Len(prev) : prev[i].messageId = m.messageId

\* 1. the id, or the role and the content, of a turn of the log
ExactDuplicate(prev, m) ==
    \E i \in 1..Len(prev) :
        \/ prev[i].messageId = m.messageId
        \/ (prev[i].role = m.role /\ prev[i].content = m.content)

(***************************************************************************)
(* part_002, addMessageToConversation: the updater given to                *)
(* setConversation, guard by guard.                                        *)
(***************************************************************************)
\* no question is held back
QuestionGuardOff(prev, m) == FALSE

\* only a question that is the last turn of the log holds the next one back
QuestionGuardLastTurn(prev, m) ==
    /\ m.role = "interviewer" /\ m.question
    /\ Len(prev) > 0 /\ IsQuestion(prev[Len(prev)])

\* every question is held back once the log has one
QuestionGuardOnce(prev, m) ==
    /\ m.role = "interviewer" /\ m.question
    /\ \E i \in 1..Len(prev) : IsQuestion(prev[i])

\* 2. a question while the latest question is positioned after the latest answer
QuestionGuardRejects(prev, m) ==
    /\ m.role = "interviewer" /\ m.question
    /\ LastInterviewerIndex(prev) > LastCandidateIndex(prev)

\* the timestamp of the caller is kept
AdjustedTimestampKept(prev, m) == m.timestamp

\* the timestamp a question gets when the last turn is feedback
AdjustedTimestamp(prev, m) ==
    IF /\ m.role = "interviewer" /\ m.question
       /\ Len(prev) > 0 /\ prev[Len(prev)].role = "feedback"
    THEN LET newTimestamp ==
                 IF m.timestamp >= StampOf(prev[Len(prev)]) + FeedbackGap
                 THEN m.timestamp ELSE StampOf(prev[Len(prev)]) + FeedbackGap
         IN IF newTimestamp > m.timestamp THEN newTimestamp ELSE m.timestamp
    ELSE m.timestamp

\* feedback is only held back when the log has no answer
FeedbackGuardNoAnswer(prev, m) ==
    m.role = "feedback" /\ LastCandidateIndex(prev) = Null

\* 3. feedback with no answer, or with feedback already after the latest answer
FeedbackGuardRejects(prev, m) ==
    /\ m.role = "feedback"
    /\ LET lastCandidateIndex == LastCandidateIndex(prev)
       IN \/ lastCandidateIndex = Null
          \/ \E i \in (lastCandidateIndex + 2)..Len(prev) : prev[i].role = "feedback"

\* a turn of the role of the last turn takes its place
addMessageReplacing(prev, m) ==
    IF ExactDuplicate(prev, m) THEN prev
    ELSE IF Len(prev) > 0 /\ prev[Len(prev)].role = m.role
         THEN [prev EXCEPT ![Len(prev)] = m]
    ELSE SortByTimestamp(Append(prev, m))

\* m is the complete message; the result is the new log (prev when rejected)
addMessageToConversation(prev, m) ==
    IF ExactDuplicate(prev, m) THEN prev
    ELSE IF QuestionGuardRejects(prev, m) THEN prev
    ELSE IF FeedbackGuardRejects(prev, m) THEN prev
    ELSE SortByTimestamp(Append(prev, [m EXCEPT !.timestamp = AdjustedTimestamp(prev, m)]))

(***************************************************************************)
(* page.tsx, addMessageToConversation: deduplication and sort only.        *)
(***************************************************************************)
addMessageToConversationPage(prev, m) ==
    IF ExactDuplicate(prev, m) THEN prev
    ELSE SortByTimestamp(Append(prev, m))

(***************************************************************************)
(* VoiceRecorder.tsx: recording and transcript are its useState values,    *)
(* insts the SpeechRecognition objects that have not fired onend yet,      *)
(* submits the pending 100 ms timers of onend with the transcript of their *)
(* closure.  A transcript is the sequence of the segments of speech heard, *)
(* numbered as they are spoken.  Observation only: made, spoken, out (what *)
(* the last step gave to onTranscription), cut (segments heard before an   *)
(* end event that no stop had asked for) and final (the transcript given   *)
(* to onTranscription last), calls (the calls of onTranscription since     *)
(* capture began), heard (speech was recognized since) and asked (the user *)
(* stopped the capture).  sr tells whether the browser has                 *)
(* SpeechRecognition, fallback is useFallbackRecorder, recorders the       *)
(* MediaRecorder objects at work, chunks audioChunksRef, streams the live  *)
(* getUserMedia streams by what obtained them, viz the pending microphone  *)
(* check of startRecognition, error what setError shows.  Observation:     *)
(* requests (/api/transcribe requests of this capture), returned (the      *)
(* transcript it answered), failed (a 'network' or 'not-allowed' error was *)
(* reported), primaryAfter (startRecognition ran after that).              *)
(***************************************************************************)
NoRec == [recording |-> FALSE, transcript |-> <<>>, insts |-> <<>>, submits |-> {},
          made |-> 0, spoken |-> 0, out |-> <<>>, cut |-> {}, final |-> <<>>,
          calls |-> 0, heard |-> FALSE, asked |-> FALSE,
          sr |-> TRUE, fallback |-> FALSE, recorders |-> <<>>, chunks |-> <<>>,
          streams |-> {}, viz |-> FALSE, error |-> "none", requests |-> 0,
          returned |-> <<>>, failed |-> FALSE, primaryAfter |-> FALSE]

(***************************************************************************)
(* The form state of Home: jobDescription, company and the answer field    *)
(* (userAnswer in page.tsx, currentAnswer in part_003) as texts, error     *)
(* (what setError shows), questions (their number), currentQuestionIndex,  *)
(* userAnswers (part_003: the saved answer of each question, <<>> when     *)
(* none).  Observation: requests (fetch calls made), entered (the last     *)
(* text entered for each question).                                        *)
(***************************************************************************)
NoForm == [jobDescription |-> <<>>, company |-> <<>>, answer |-> <<>>,
           error |-> "none", questions |-> 0, currentQuestionIndex |-> 0,
           userAnswers |-> <<>>, requests |-> 0, entered |-> <<>>]

\* no request has been made
NoApi == [route |-> "none"]

(***************************************************************************)
(* What a step did, kept for the properties.                               *)
(***************************************************************************)
NoHist == [op |-> "init", dup |-> FALSE, changed |-> FALSE, adjusted |-> FALSE,
           startedTurns |-> {}, replayed |-> FALSE, finishedTurns |-> {},
           selected |-> NoId, done |-> <<>>, kind |-> "none", expected |-> NoId,
           answered |-> {}]

\* what a message is to the guards: a question, or its role
KindOf(m) == IF m.role = "interviewer" /\ m.question THEN "question" ELSE m.role

AddHist(prev, m, new) ==
    [hist EXCEPT
     !.op = "add",
     !.kind = KindOf(m),
     !.dup = \E i \in 1..Len(prev) :
                 \/ prev[i].messageId = m.messageId
                 \/ (prev[i].role = m.role /\ prev[i].content = m.content),
     !.changed = new # prev,
     !.adjusted = /\ new # prev
                  /\ \E i \in 1..Len(new) :
                        new[i].messageId = m.messageId /\ new[i].timestamp # m.timestamp]

(***************************************************************************)
(* SpecAdd: the log under arbitrary addMessageToConversation calls.        *)
(***************************************************************************)
InitAdd ==
    /\ variant \in {"part_002", "page"}
    /\ conversation = <<>>
    /\ lastMessageId = NoId
    /\ processingFeedback = FALSE
    /\ isSpeaking = FALSE
    /\ lastAudioMessageIdRef = Null
    /\ playedMessages = {}
    /\ players = <<>>
    /\ timers = {}
    /\ started = FALSE
    /\ session = 0
    /\ listeningForVoice = FALSE
    /\ rec = NoRec
    /\ form = NoForm
    /\ api = NoApi
    /\ hist = NoHist
    /\ isSubmittingAnswer = FALSE

\* part_002: a call of addMessageToConversation(message) at time now
AddSequenced ==
    /\ variant = "part_002"
    /\ \E message \in AddInputs, now \in DateNow :
        LET m == Complete(message, now)
            new == IF processingFeedback /\ m.role \in {"interviewer", "feedback"}
                   THEN conversation   \* deferred: retried after 3 s
                   ELSE addMessageToConversation(conversation, m)
        IN /\ Len(new) <= MaxLog
           /\ conversation' = new
           /\ hist' = AddHist(conversation, m, new)
    /\ UNCHANGED <<isSubmittingAnswer, form, api, rec, listeningForVoice, variant, lastMessageId, processingFeedback, isSpeaking,
                   lastAudioMessageIdRef, playedMessages, players, timers, started,
                   session>>

\* page.tsx: a call from a closure that saw lastMessageId as closureLast
AddSimple ==
    /\ variant = "page"
    /\ \E message \in AddInputs, now \in DateNow, closureLast \in {lastMessageId, NoId} :
        LET m == Complete(message, now)
            skipped == closureLast = m.messageId
            new == IF skipped THEN conversation
                   ELSE addMessageToConversationPage(conversation, m)
        IN /\ Len(new) <= MaxLogPage
           /\ conversation' = new
           /\ lastMessageId' = IF skipped THEN lastMessageId ELSE m.messageId
           /\ hist' = AddHist(conversation, m, new)
    /\ UNCHANGED <<isSubmittingAnswer, form, api, rec, listeningForVoice, variant, processingFeedback, isSpeaking,
                   lastAudioMessageIdRef, playedMessages, players, timers, started,
                   session>>

NextAdd == AddSequenced \/ AddSimple

SpecAdd == InitAdd /\ [][NextAdd]_vars

(***************************************************************************)
(* page.tsx with AudioPlayer.tsx: the audio sequencing.                    *)
(*                                                                         *)
(* A player is an AudioPlayer instance together with the playAudioOnce     *)
(* call its mount effect makes: idx is its messageId prop (the index of    *)
(* the turn), turn the id of the turn whose text it was given, snap the    *)
(* conversation its onPlaybackEnd closure holds (the one of the render     *)
(* that mounted it), and pc where the call stands: "timer" (the 100 ms     *)
(* timer of the mount effect), "fetch" (awaiting /api/voice), "mock" (the  *)
(* mock timer), "audio" (the element plays), "idle" (nothing to come).     *)
(***************************************************************************)
Indices(conv) == 0..(Len(conv) - 1)

NeedsAudio(conv) == {i \in Indices(conv) : conv[i + 1].needsAudioPlay}

Min(S) == CHOOSE x \in S : \A y \in S : x <= y
Max(S) == CHOOSE x \in S : \A y \in S : y <= x

\* The turn whose AudioPlayer the render shows: index === ref, in the
\* interviewer or the feedback branch (feedback turns carry message.feedback),
\* in the interview view only.
RenderTarget(isStarted, conv, ref) ==
    IF /\ isStarted
       /\ ref \in Indices(conv)
       /\ conv[ref + 1].role \in {"interviewer", "feedback"}
    THEN ref ELSE Null

NewPlayer(conv, target, played) ==
    [idx |-> target, turn |-> conv[target + 1].messageId, role |-> conv[target + 1].role,
     snap |-> conv, mounted |-> TRUE,
     \* the mount effect: autoPlay && !alreadyPlayed
     pc |-> IF target \in played THEN "idle" ELSE "timer",
     starts |-> 0, ends |-> 0]

Keeps(p, conv, target) ==
    p.mounted /\ target # Null /\ p.idx = target /\ conv[target + 1].role = p.role

\* The render's effect on the AudioPlayer instances: the one not shown any
\* more is unmounted (its cleanup pauses the element, its timers and its
\* fetch go on), the one shown is mounted unless it is there already.
Reconcile(ps, conv, target, played) ==
    LET unmounted == [i \in 1..Len(ps) |->
                        IF ps[i].mounted /\ ~Keeps(ps[i], conv, target)
                        THEN [ps[i] EXCEPT !.mounted = FALSE,
                                           !.pc = IF @ = "audio" THEN "idle" ELSE @]
                        ELSE ps[i]]
        shown == IF target # Null /\ \A i \in 1..Len(ps) : ~Keeps(ps[i], conv, target)
                 THEN Append(unmounted, NewPlayer(conv, target, played))
                 ELSE unmounted
        Live(p) == p.mounted \/ p.pc # "idle"
    IN SelectSeq(shown, Live)

\* a pending setTimeout callback of Home (or its pending /api/interview
\* request) with what its closure holds
Timer(kind, snap, idx, last, s) ==
    [kind |-> kind, snap |-> snap, idx |-> idx, last |-> last, session |-> s,
     \* of a selection: the position in snap of the turn whose audio finished
     fin |-> Null]

\* the effect of line 57: the last turn that needs audio becomes current
EffectLastAudio(conv, speaking, ref) ==
    IF Len(conv) > 0 /\ ~speaking /\ NeedsAudio(conv) # {}
    THEN Max(NeedsAudio(conv)) ELSE ref

\* the effect of line 750: a 500 ms timer that makes a pending turn current
EffectPendingAudio(conv, speaking, ref) ==
    IF ~speaking /\ ref = Null /\ Len(conv) > 0
    THEN LET fb == {i \in NeedsAudio(conv) : conv[i + 1].role = "feedback"}
         IN IF fb # {} THEN {Timer("pending", <<>>, Max(fb), NoId, 0)}
            ELSE IF NeedsAudio(conv) # {}
            THEN {Timer("pending", <<>>, Min(NeedsAudio(conv)), NoId, 0)}
            ELSE {}
    ELSE {}

\* part_002, findNextAudioMessageIndex: the first turn that needs audio
findNextAudioMessageIndex(conv) ==
    IF NeedsAudio(conv) # {} THEN Min(NeedsAudio(conv)) ELSE Null

\* the earliest later turn, whether it needs audio or not
SelectAnyLater(snap, cur) ==
    IF Len(snap) = 0 THEN Null
    ELSE LET currentMessageTime ==
                 IF cur # Null /\ cur \in Indices(snap) THEN StampOf(snap[cur + 1]) ELSE 0
             later == {i \in Indices(snap) : StampOf(snap[i + 1]) > currentMessageTime}
             earliest == {i \in later : \A j \in later :
                              StampOf(snap[i + 1]) <= StampOf(snap[j + 1])}
         IN IF later # {} THEN Min(earliest)
            ELSE IF NeedsAudio(snap) # {} THEN Min(NeedsAudio(snap))
            ELSE Null

\* handleAudioPlaybackEnded, lines 659-700: the turn to play next, chosen in
\* the conversation snap of the closure, cur being the index that was current
SelectNext(snap, cur) ==
    IF Len(snap) = 0 THEN Null
    ELSE LET currentMessageTime ==
                 IF cur # Null /\ cur \in Indices(snap) THEN StampOf(snap[cur + 1]) ELSE 0
             later == {i \in NeedsAudio(snap) : StampOf(snap[i + 1]) > currentMessageTime}
             earliest == {i \in later : \A j \in later :
                              StampOf(snap[i + 1]) <= StampOf(snap[j + 1])}
         IN IF later # {} THEN Min(earliest)
            ELSE IF NeedsAudio(snap) # {} THEN Min(NeedsAudio(snap))
            ELSE Null

(***************************************************************************)
(* A handler leaves Home in state h (conv, last, speaking, ref, players,   *)
(* timers, started); React then renders Home if its state changed and runs *)
(* the two effects if conversation or isSpeaking changed.                  *)
(***************************************************************************)
Rendered(h) ==
    LET rerender == \/ h.conv # conversation \/ h.speaking # isSpeaking
                    \/ h.last # lastMessageId \/ h.started # started
                    \/ h.dirty   \* isLoading, userAnswer, questions, error
        deps == h.conv # conversation \/ h.speaking # isSpeaking
        target == RenderTarget(h.started, h.conv, h.ref)
        ref1 == IF deps THEN EffectLastAudio(h.conv, h.speaking, h.ref) ELSE h.ref
    IN [h EXCEPT
          !.players = IF rerender THEN Reconcile(h.players, h.conv, target, h.played)
                      ELSE h.players,
          !.ref = ref1,
          !.timers = IF deps THEN h.timers \cup EffectPendingAudio(h.conv, h.speaking, ref1)
                     ELSE h.timers]

Home ==
    [conv |-> conversation, last |-> lastMessageId, speaking |-> isSpeaking,
     ref |-> lastAudioMessageIdRef, players |-> players, timers |-> timers,
     started |-> started, played |-> playedMessages, dirty |-> FALSE]

Commit(h) ==
    /\ conversation' = h.conv
    /\ lastMessageId' = h.last
    /\ isSpeaking' = h.speaking
    /\ lastAudioMessageIdRef' = h.ref
    /\ players' = SelectSeq(h.players, LAMBDA p : p.mounted \/ p.pc # "idle")
    /\ timers' = h.timers
    /\ started' = h.started
    /\ playedMessages' = h.played

\* handleAudioPlaybackStarted
PlaybackStarted(h) == [h EXCEPT !.speaking = TRUE]

\* handleAudioPlaybackEnded of the closure that holds snap; fin tells the
\* properties which turn ended, the handler reads the ref only
PlaybackEnded(h, snap, fin) ==
    [h EXCEPT !.speaking = FALSE,
              !.ref = Null,
              !.timers = @ \cup {[Timer("select", snap, h.ref, NoId, 0) EXCEPT !.fin = fin]}]

(***************************************************************************)
(* SpecPlay: page.tsx with AudioPlayer.tsx, from the start form on.        *)
(***************************************************************************)
\* the id a turn of interview s carries: its Date.now() part differs by s
SessionId(id, s) == id + 1000 * s

WelcomeId == 10
FirstQuestionId == 11
\* the first question is stamped Date.now() + 500
FirstQuestionDelay == 500

Welcome(s, now) ==
    [role |-> "interviewer", content |-> "welcome", question |-> FALSE,
     needsAudioPlay |-> TRUE, messageId |-> SessionId(WelcomeId, s), timestamp |-> now]

FirstQuestion(s, now) ==
    [role |-> "interviewer", content |-> "q0", question |-> TRUE,
     needsAudioPlay |-> TRUE, messageId |-> SessionId(FirstQuestionId, s),
     timestamp |-> now + FirstQuestionDelay]

\* what handleSubmitAnswer and handleVoiceInput add: answers, feedback,
\* follow-up questions, stamped by the caller or by addMessageToConversation
PlayInputs ==
    { m \in AddInputs : m.messageId = NoId /\ m.content = "a" /\ m.timestamp \notin DateNow }

\* page.tsx addMessageToConversation as a closure that saw closureLast calls it
AddTo(h, m, closureLast) ==
    IF closureLast = m.messageId THEN h
    ELSE [h EXCEPT !.last = m.messageId,
                   !.conv = addMessageToConversationPage(@, m)]

IsLoading == \E t \in timers : t.kind = "interview"

PlayHist(op) ==
    [hist EXCEPT !.op = op, !.dup = FALSE, !.changed = FALSE, !.adjusted = FALSE,
                 !.replayed = FALSE, !.selected = NoId, !.done = <<>>,
                 !.kind = "none", !.expected = NoId]

InitPlay ==
    /\ variant = "page"
    /\ conversation = <<>>
    /\ lastMessageId = NoId
    /\ processingFeedback = FALSE
    /\ isSpeaking = FALSE
    /\ lastAudioMessageIdRef = Null
    /\ playedMessages = {}
    /\ players = <<>>
    /\ timers = {}
    /\ started = FALSE
    /\ session = 0
    /\ listeningForVoice = FALSE
    /\ rec = NoRec
    /\ form = NoForm
    /\ api = NoApi
    /\ hist = NoHist
    /\ isSubmittingAnswer = FALSE

\* handleStartInterview up to its await: the form is filled, the button enabled
StartInterview ==
    /\ ~started /\ ~IsLoading
    /\ session < MaxSessions
    /\ session' = session + 1
    /\ Commit(Rendered([Home EXCEPT
            !.conv = <<>>, !.ref = Null, !.last = NoId, !.dirty = TRUE,
            !.timers = @ \cup {Timer("interview", <<>>, Null, lastMessageId, session + 1)}]))
    /\ hist' = [PlayHist("start") EXCEPT !.startedTurns = {}, !.finishedTurns = {}]
    /\ UNCHANGED <<isSubmittingAnswer, form, api, rec, listeningForVoice, variant, processingFeedback>>

\* handleStartInterview after its await: /api/interview answered with
\* questions (ok) or failed
InterviewResponse ==
    /\ \E t \in timers, ok \in BOOLEAN, now \in DateNow :
        /\ t.kind = "interview"
        /\ LET rest == [Home EXCEPT !.timers = @ \ {t}, !.dirty = TRUE]
               h == IF ok
                    THEN [AddTo(rest, Welcome(t.session, now), t.last) EXCEPT
                            !.started = TRUE,
                            !.timers = @ \cup {Timer("firstQuestion", <<>>, Null,
                                                     t.last, t.session)}]
                    ELSE rest
           IN /\ Len(h.conv) <= MaxLogPage
              /\ Commit(Rendered(h))
    /\ hist' = PlayHist("response")
    /\ UNCHANGED <<isSubmittingAnswer, form, api, rec, listeningForVoice, variant, processingFeedback, session>>

\* an addMessageToConversation call of handleSubmitAnswer or handleVoiceInput
PlayInsert ==
    /\ started
    /\ Len(players) < MaxPlayers
    /\ \E message \in PlayInputs, now \in DateNow, closureLast \in {lastMessageId, NoId} :
        LET c == Complete(message, now)
            m == [c EXCEPT !.messageId = SessionId(@, session)]
            h == AddTo(Home, m, closureLast)
        IN /\ Len(h.conv) <= MaxLogPage
           /\ Commit(Rendered(h))
    /\ hist' = PlayHist("add")
    /\ UNCHANGED <<isSubmittingAnswer, form, api, rec, listeningForVoice, variant, processingFeedback, session>>

\* the textarea's onChange: setUserAnswer, Home renders again
TypeAnswer ==
    /\ started /\ ~isSpeaking
    /\ Len(players) < MaxPlayers
    /\ Commit(Rendered([Home EXCEPT !.dirty = TRUE]))
    /\ hist' = PlayHist("type")
    /\ UNCHANGED <<isSubmittingAnswer, form, api, rec, listeningForVoice, variant, processingFeedback, session>>

\* handleRestart
Restart ==
    /\ started
    /\ Commit(Rendered([Home EXCEPT
            !.started = FALSE, !.conv = <<>>, !.ref = Null, !.dirty = TRUE]))
    /\ hist' = [PlayHist("restart") EXCEPT !.startedTurns = {}, !.finishedTurns = {}]
    /\ UNCHANGED <<isSubmittingAnswer, form, api, rec, listeningForVoice, variant, processingFeedback, session>>

\* the 100 ms timer of the mount effect: playAudioOnce up to its fetch.  The
\* guard reads alreadyPlayed of the first render, false for this player.
MountTimer ==
    /\ \E i \in 1..Len(players) :
        /\ players[i].pc = "timer"
        /\ playedMessages' = playedMessages \cup {players[i].idx}
        /\ players' = [players EXCEPT ![i].pc = "fetch"]
    /\ hist' = PlayHist("play")
    /\ UNCHANGED <<isSubmittingAnswer, form, api, rec, listeningForVoice, variant, conversation, lastMessageId, processingFeedback, isSpeaking,
                   lastAudioMessageIdRef, timers, started, session>>

\* playAudioOnce going on without its call of onPlaybackStart
StartedByNone(i, pc) == [Home EXCEPT !.players[i].pc = pc]

\* onPlaybackStart of player i, then what follows in playAudioOnce
StartedBy(i, pc) ==
    PlaybackStarted([Home EXCEPT !.players[i].pc = pc, !.players[i].starts = @ + 1])

\* onPlaybackEnd of player i: nothing of its playAudioOnce is to come
EndedBy(i, finished) ==
    PlaybackEnded([Home EXCEPT !.players[i].pc = "idle", !.players[i].ends = @ + 1],
                  players[i].snap, IF finished THEN players[i].idx ELSE Null)

StartHist(p) ==
    [PlayHist("started") EXCEPT !.replayed = p.turn \in hist.startedTurns,
                                !.startedTurns = @ \cup {p.turn}]

DoneHist(p, starts, ends, finished) ==
    [PlayHist("done") EXCEPT !.done = <<starts, ends>>,
                             !.finishedTurns = IF finished THEN @ \cup {p.turn} ELSE @]

\* playAudioOnce after its fetch: the request failed ("fail"), answered with
\* mock data ("mock": /api/voice does so without a key and on every error of
\* the voice service), or with audio that play() starts ("play") or rejects
\* ("rejected"); audioRef.current is null once the player is unmounted
VoiceResponse ==
    /\ \E i \in 1..Len(players), outcome \in {"fail", "mock", "play", "rejected"} :
        LET p == players[i]
        IN /\ p.pc = "fetch"
           /\ CASE outcome = "fail" ->
                     /\ Commit(Rendered(EndedBy(i, FALSE)))
                     /\ hist' = DoneHist(p, p.starts, p.ends + 1, FALSE)
                [] outcome = "mock" ->
                     /\ Commit(Rendered(StartedBy(i, "mock")))
                     /\ hist' = StartHist(p)
                [] outcome = "play" /\ p.mounted ->
                     /\ Commit(Rendered(StartedBy(i, "audio")))
                     /\ hist' = StartHist(p)
                [] outcome = "rejected" /\ p.mounted ->
                     /\ Commit(Rendered(EndedBy(i, FALSE)))
                     /\ hist' = DoneHist(p, p.starts, p.ends + 1, FALSE)
                [] OTHER ->
                     /\ Commit([Home EXCEPT !.players[i].pc = "idle"])
                     /\ hist' = DoneHist(p, p.starts, p.ends, FALSE)
    /\ UNCHANGED <<isSubmittingAnswer, form, api, rec, listeningForVoice, variant, processingFeedback, session>>

\* the timer of the mock playback
MockTimer ==
    /\ \E i \in 1..Len(players) :
        /\ players[i].pc = "mock"
        /\ Commit(Rendered(EndedBy(i, TRUE)))
        /\ hist' = [DoneHist(players[i], players[i].starts, players[i].ends + 1, TRUE)
                       EXCEPT !.kind = "mock"]
    /\ UNCHANGED <<isSubmittingAnswer, form, api, rec, listeningForVoice, variant, processingFeedback, session>>

\* onended or onerror of the audio element of a mounted player
AudioEnded ==
    /\ \E i \in 1..Len(players), event \in {"ended", "error"} :
        /\ players[i].pc = "audio"
        /\ Commit(Rendered(EndedBy(i, event = "ended")))
        /\ hist' = DoneHist(players[i], players[i].starts, players[i].ends + 1,
                            event = "ended")
    /\ UNCHANGED <<isSubmittingAnswer, form, api, rec, listeningForVoice, variant, processingFeedback, session>>

\* The turn to play after the turn at position fin of log has finished: of
\* the turns that need audio and have a timestamp greater than its timestamp
\* the one of the smallest timestamp (the first of them in the log), and the
\* first turn that needs audio when there is none.
NextAfter(log, fin) ==
    LET later == {i \in NeedsAudio(log) : StampOf(log[i + 1]) > StampOf(log[fin + 1])}
    IN IF later # {}
       THEN CHOOSE i \in later :
                \A j \in later : \/ StampOf(log[i + 1]) < StampOf(log[j + 1])
                                  \/ (StampOf(log[i + 1]) = StampOf(log[j + 1]) /\ i <= j)
       ELSE IF NeedsAudio(log) # {} THEN Min(NeedsAudio(log))
       ELSE Null

\* the interview that set timer t was left: handleRestart ran since (started
\* is false until the next interview, whose number differs)
IssuedBeforeRestart(t) == ~started \/ t.session # session

\* a setTimeout callback of Home: the first question of handleStartInterview,
\* the selection of handleAudioPlaybackEnded, the pending-audio effect
HomeTimer ==
    /\ \E t \in timers, now \in DateNow :
        /\ t.kind \in {"firstQuestion", "select", "pending"}
        /\ LET rest == [Home EXCEPT !.timers = @ \ {t}]
               next == SelectNext(t.snap, t.idx)
               h == CASE t.kind = "firstQuestion" ->
                           AddTo(rest, FirstQuestion(t.session, now), t.last)
                      [] t.kind = "select" ->
                           [rest EXCEPT !.ref = IF next # Null THEN next ELSE @]
                      [] OTHER -> [rest EXCEPT !.ref = t.idx]
           IN /\ Len(h.conv) <= MaxLogPage
              /\ Commit(Rendered(h))
              /\ hist' = IF t.kind = "select"
                         THEN [PlayHist("select") EXCEPT
                                 !.selected = IF next # Null
                                              THEN t.snap[next + 1].messageId ELSE NoId,
                                 !.kind = IF t.fin # Null THEN "finished" ELSE "none",
                                 !.expected =
                                     IF t.fin # Null /\ NextAfter(t.snap, t.fin) # Null
                                     THEN t.snap[NextAfter(t.snap, t.fin) + 1].messageId
                                     ELSE NoId]
                         ELSE [PlayHist(IF t.kind = "firstQuestion" /\ IssuedBeforeRestart(t)
                                        THEN "stale" ELSE "timer") EXCEPT
                                 !.changed = h.conv # conversation]
    /\ UNCHANGED <<isSubmittingAnswer, form, api, rec, listeningForVoice, variant, processingFeedback, session>>

NextPlay ==
    \/ StartInterview
    \/ InterviewResponse
    \/ PlayInsert
    \/ TypeAnswer
    \/ Restart
    \/ MountTimer
    \/ VoiceResponse
    \/ MockTimer
    \/ AudioEnded
    \/ HomeTimer

SpecPlay == InitPlay /\ [][NextPlay]_vars

\* callbacks, timers and responses are scheduled fairly; the user is not
SpecPlayFair ==
    /\ SpecPlay
    /\ WF_vars(InterviewResponse)
    /\ WF_vars(MountTimer)
    /\ WF_vars(VoiceResponse)
    /\ WF_vars(MockTimer)
    /\ WF_vars(AudioEnded)
    /\ WF_vars(HomeTimer)

(***************************************************************************)
(* SpecMic: SpecPlay with the voice button of page.tsx.                    *)
(***************************************************************************)
\* handleVoiceButtonClick up to its first await.  The button is rendered in
\* the interview view and disabled while isSpeaking.
VoiceButtonClick ==
    /\ started /\ ~isSpeaking
    /\ Len(players) < MaxPlayers
    /\ IF listeningForVoice
       THEN /\ listeningForVoice' = FALSE
            /\ Commit(Rendered([Home EXCEPT !.dirty = TRUE]))
       ELSE /\ listeningForVoice' = listeningForVoice
            /\ Commit(Rendered([Home EXCEPT
                    !.dirty = TRUE,
                    !.timers = @ \cup {Timer("mic", <<>>, Null, NoId, session)}]))
    /\ hist' = PlayHist("mic")
    /\ UNCHANGED <<isSubmittingAnswer, form, api, rec, variant, processingFeedback, session>>

\* handleVoiceButtonClick after permissions.query and getUserMedia: the
\* permission is denied, getUserMedia throws, or the microphone is granted
MicResponse ==
    /\ \E t \in timers, outcome \in {"denied", "error", "granted"} :
        /\ t.kind = "mic"
        /\ Len(players) < MaxPlayers
        /\ listeningForVoice' = IF outcome = "granted" THEN TRUE ELSE listeningForVoice
        /\ Commit(Rendered([Home EXCEPT !.dirty = TRUE, !.timers = @ \ {t}]))
    /\ hist' = PlayHist("micResponse")
    /\ UNCHANGED <<isSubmittingAnswer, form, api, rec, variant, processingFeedback, session>>

\* handleVoiceInput, called by the VoiceRecorder with its transcript: empty,
\* or an answer that goes into the conversation
VoiceInput ==
    /\ started /\ listeningForVoice
    /\ Len(players) < MaxPlayers
    /\ listeningForVoice' = FALSE
    /\ \E empty \in BOOLEAN, now \in DateNow, closureLast \in {lastMessageId, NoId},
          message \in {m \in PlayInputs : m.role = "candidate" /\ m.timestamp = NoStamp} :
        LET c == Complete(message, now)
            m == [c EXCEPT !.messageId = SessionId(@, session)]
            h == IF empty THEN [Home EXCEPT !.dirty = TRUE]
                 ELSE [AddTo(Home, m, closureLast) EXCEPT !.dirty = TRUE]
        IN /\ Len(h.conv) <= MaxLogPage
           /\ Commit(Rendered(h))
    /\ hist' = PlayHist("voice")
    /\ UNCHANGED <<isSubmittingAnswer, form, api, rec, variant, processingFeedback, session>>

NextMic ==
    \/ StartInterview
    \/ InterviewResponse
    \/ PlayInsert
    \/ TypeAnswer
    \/ Restart
    \/ MountTimer
    \/ VoiceResponse
    \/ MockTimer
    \/ AudioEnded
    \/ HomeTimer
    \/ VoiceButtonClick
    \/ MicResponse
    \/ VoiceInput

SpecMic == InitPlay /\ [][NextMic]_vars

(***************************************************************************)
(* SpecVoice: VoiceRecorder.tsx (continuous mode, SpeechRecognition        *)
(* available) under page.tsx, which passes listeningForVoice as            *)
(* isListening and handleVoiceInput as onTranscription.                    *)
(***************************************************************************)
Range(f) == {f[i] : i \in DOMAIN f}

\* new SpeechRecognition() of startRecognition with the handlers it is given:
\* their closure holds the transcript of the render that made startRecognition
\* (and recording = false, or startRecognition had returned at once)
Recognition(closureTranscript) ==
    [state |-> "running", closure |-> closureTranscript, results |-> <<>>, current |-> TRUE]

\* startRecognition, called with recording = false: setTranscript(''),
\* setError(null), a new recognizer in recognitionRef, the microphone check
\* and getUserMedia for the visualization on their way, recognition.start(),
\* setRecording(true)
startRecognition(r) ==
    [r EXCEPT !.transcript = <<>>,
              !.error = "none",
              !.recording = TRUE,
              !.made = @ + 1,
              !.viz = TRUE,
              !.primaryAfter = r.failed,
              !.insts = Append([i \in 1..Len(r.insts) |-> [r.insts[i] EXCEPT !.current = FALSE]],
                               Recognition(r.transcript))]

\* startMediaRecording up to its first await, called with recording = false:
\* audioChunksRef.current = [], setError(null)
startMediaRecording(r) ==
    [r EXCEPT !.chunks = <<>>,
              !.error = "none",
              !.made = @ + 1,
              !.recorders = Append(@, [state |-> "starting", current |-> FALSE, blob |-> <<>>])]

\* the recorders that still have something to do; a MediaRecorder that a later
\* one replaced in mediaRecorderRef while recording ("orphan") is never stopped
Working(r) == {i \in 1..Len(r.recorders) : r.recorders[i].state # "orphan"}

\* cleanupAudio: the tracks of the stream in streamRef are stopped
cleanupAudio(r) == [r EXCEPT !.streams = @ \ {"capture"}]

\* stopRecognition: the transcript, if any, goes to onTranscription, the
\* recognizer of recognitionRef is stopped (its onend is still to come), so
\* is the MediaRecorder of mediaRecorderRef if it is recording; cleanupAudio
stopRecognition(r) ==
    IF ~r.recording THEN r
    ELSE cleanupAudio(
         [r EXCEPT !.out = IF r.transcript # <<>> THEN Append(@, r.transcript) ELSE @,
                   !.final = IF r.transcript # <<>> THEN r.transcript ELSE @,
                   !.calls = IF r.transcript # <<>> THEN @ + 1 ELSE @,
                   !.transcript = <<>>,
                   !.insts = [i \in 1..Len(r.insts) |->
                                IF r.insts[i].current
                                THEN [r.insts[i] EXCEPT !.state = "stopping", !.current = FALSE]
                                ELSE r.insts[i]],
                   !.recorders = [i \in 1..Len(r.recorders) |->
                                    IF r.recorders[i].current
                                    THEN [r.recorders[i] EXCEPT
                                            !.state = IF @ = "recording" THEN "stopped" ELSE @,
                                            !.current = FALSE]
                                    ELSE r.recorders[i]],
                   !.recording = FALSE])

\* the effect without its test of useFallbackRecorder
ListeningEffectPrimary(r, isListening) ==
    IF isListening /\ ~r.recording
    THEN IF ~r.sr THEN startMediaRecording(r) ELSE startRecognition(r)
    ELSE IF ~isListening /\ r.recording THEN stopRecognition(r)
    ELSE r

\* the effect on [isListening, recording, ...], run after the render
ListeningEffect(r, isListening) ==
    IF isListening /\ ~r.recording
    THEN IF ~r.sr \/ r.fallback THEN startMediaRecording(r) ELSE startRecognition(r)
    ELSE IF ~isListening /\ r.recording THEN stopRecognition(r)
    ELSE r

\* the recorder after a handler took it from old to new: the effect runs when
\* one of its dependencies changed (the callbacks change with recording and
\* transcript)
Effected(old, new, isListening) ==
    IF \/ old.recording # new.recording \/ old.fallback # new.fallback
       \/ old.transcript # new.transcript
    THEN ListeningEffect(new, isListening) ELSE new

\* Date.now() of a call of handleVoiceInput: later than that of the turns
\* the log has
NowAfter(conv) == Max(DateNow) + Len(conv)

\* the turn handleVoiceInput adds: `candidate-voice-${Date.now()}`
VoiceMessage(transcript, now) ==
    [role |-> "candidate", content |-> transcript, question |-> FALSE,
     needsAudioPlay |-> FALSE, messageId |-> 10000 + now, timestamp |-> now]

\* Home after the calls of onTranscription in out (handleVoiceInput) and the
\* render that follows
Transcribed(h, out) ==
    IF out = <<>> THEN [h EXCEPT !.dirty = TRUE]
    ELSE [AddTo(h, VoiceMessage(out[1], NowAfter(h.conv)), h.last) EXCEPT !.dirty = TRUE]

\* The interview view after handleStartInterview: the welcome turn is in the
\* log, its audio and the first question are still to come.  The VoiceRecorder
\* is mounted: in a browser without SpeechRecognition its mount effect has set
\* useFallbackRecorder, and the stream of its microphone check is live unless
\* the check failed or the stream was collected.
InitVoice ==
    /\ variant = "page"
    /\ conversation = <<Welcome(1, Max(DateNow))>>
    /\ lastMessageId = SessionId(WelcomeId, 1)
    /\ processingFeedback = FALSE
    /\ isSpeaking = FALSE
    /\ lastAudioMessageIdRef = 0
    /\ playedMessages = {}
    /\ players = <<>>
    /\ timers = {Timer("firstQuestion", <<>>, Null, NoId, 1)}
    /\ started = TRUE
    /\ session = 1
    /\ listeningForVoice = FALSE
    /\ \E hasRecognition \in BOOLEAN, checked \in BOOLEAN :
         rec = [NoRec EXCEPT !.sr = hasRecognition,
                             !.fallback = ~hasRecognition,
                             !.streams = IF checked THEN {"check"} ELSE {}]
    /\ form = NoForm
    /\ api = NoApi
    /\ hist = NoHist
    /\ isSubmittingAnswer = FALSE

\* setListeningForVoice(true) of handleVoiceButtonClick, the microphone being
\* granted by its getUserMedia, and the effect of the VoiceRecorder: capture
\* begins
ListenOn ==
    /\ ~listeningForVoice /\ ~isSpeaking
    /\ rec.insts = <<>> /\ rec.submits = {} /\ Working(rec) = {}
    /\ rec.made < MaxInstances
    /\ listeningForVoice' = TRUE
    /\ rec' = ListeningEffect([rec EXCEPT !.out = <<>>, !.cut = {}, !.final = <<>>,
                                         !.calls = 0, !.heard = FALSE, !.asked = FALSE,
                                         !.requests = 0, !.returned = <<>>,
                                         !.streams = @ \cup {"permission"}],
                              TRUE)
    /\ Commit(Rendered([Home EXCEPT !.dirty = TRUE]))
    /\ hist' = PlayHist("listen")
    /\ UNCHANGED <<isSubmittingAnswer, form, api, variant, processingFeedback, session>>

\* setListeningForVoice(false) of handleVoiceButtonClick and the effect of
\* the VoiceRecorder: stopRecognition
ListenOff ==
    /\ listeningForVoice /\ ~isSpeaking
    /\ LET r == ListeningEffect([rec EXCEPT !.out = <<>>, !.asked = rec.recording], FALSE)
           h == Transcribed(Home, r.out)
       IN /\ Len(h.conv) <= MaxLogVoice
          /\ rec' = r
          /\ Commit(Rendered(h))
    /\ listeningForVoice' = FALSE
    /\ hist' = PlayHist("stop")
    /\ UNCHANGED <<isSubmittingAnswer, form, api, variant, processingFeedback, session>>

\* recognition.onresult of a running recognizer: one more segment is heard,
\* setTranscript(fullTranscript) with all the results of this recognizer
RecognitionResult ==
    /\ rec.spoken < MaxSpeech
    /\ \E i \in 1..Len(rec.insts) :
        /\ rec.insts[i].state = "running"
        /\ LET fullTranscript == Append(rec.insts[i].results, rec.spoken + 1)
               r == ListeningEffect([rec EXCEPT !.out = <<>>,
                                                !.spoken = @ + 1,
                                                !.heard = TRUE,
                                                !.insts[i].results = fullTranscript,
                                                !.transcript = fullTranscript],
                                    listeningForVoice)
           IN /\ r.made <= MaxInstances
              /\ rec' = r
    /\ Commit(Rendered([Home EXCEPT !.dirty = TRUE]))
    /\ hist' = PlayHist("result")
    /\ UNCHANGED <<isSubmittingAnswer, form, api, listeningForVoice, variant, processingFeedback, session>>

\* recognition.onerror of a running recognizer, whose end event follows:
\* 'no-speech' is passed over, any other error is shown, and 'network' and
\* 'not-allowed' set useFallbackRecorder and call startMediaRecording of the
\* closure, whose recording is false
RecognitionError ==
    /\ \E i \in 1..Len(rec.insts),
          error \in {"no-speech", "aborted", "network", "not-allowed"} :
        /\ rec.insts[i].state = "running"
        /\ LET r0 == [rec EXCEPT !.out = <<>>, !.insts[i].state = "failing"]
               r1 == IF error = "no-speech" THEN r0
                     ELSE IF error = "aborted" THEN [r0 EXCEPT !.error = "recognition"]
                     ELSE startMediaRecording([r0 EXCEPT !.fallback = TRUE, !.failed = TRUE])
               r == Effected(rec, r1, listeningForVoice)
           IN /\ r.made <= MaxInstances
              /\ rec' = r
    /\ hist' = PlayHist("error")
    /\ UNCHANGED <<isSubmittingAnswer, form, api, listeningForVoice, variant, conversation, lastMessageId,
                   processingFeedback, isSpeaking, lastAudioMessageIdRef, playedMessages,
                   players, timers, started, session>>

\* recognition.onend of a recognizer, ended by the engine after a pause or an
\* error, or by stop(): the transcript of the closure, if any, is submitted
\* 100 ms later; recording of the closure is false, so the else branch runs
\* (cleanupAudio, setRecording(false)); then the render and the effect
RecognitionEnd ==
    /\ \E i \in 1..Len(rec.insts) :
        LET inst == rec.insts[i]
            unasked == inst.state = "running" /\ listeningForVoice
            r == Effected(rec,
                   cleanupAudio(
                   [rec EXCEPT !.out = <<>>,
                               !.submits = IF inst.closure # <<>>
                                           THEN @ \cup {inst.closure} ELSE @,
                               !.cut = IF unasked THEN @ \cup Range(inst.results) ELSE @,
                               !.insts = SubSeq(@, 1, i - 1) \o SubSeq(@, i + 1, Len(@)),
                               !.recording = FALSE]),
                   listeningForVoice)
        IN /\ r.made <= MaxInstances
           /\ rec' = r
           /\ hist' = PlayHist(IF unasked THEN "end" ELSE "stopped")
    /\ Commit(Rendered([Home EXCEPT !.dirty = TRUE]))
    /\ UNCHANGED <<isSubmittingAnswer, form, api, listeningForVoice, variant, processingFeedback, session>>

\* the 100 ms timer of onend: onTranscription(transcript) of the closure,
\* which is handleVoiceInput (setListeningForVoice(false), the answer goes
\* into the log), then setTranscript(''), the render and the effect
SubmitTimer ==
    /\ \E t \in rec.submits :
        LET r == ListeningEffect([rec EXCEPT !.out = <<t>>,
                                            !.final = t,
                                            !.calls = @ + 1,
                                            !.submits = @ \ {t},
                                            !.transcript = <<>>],
                                 FALSE)
            h == Transcribed(Home, <<t>>)
        IN /\ Len(h.conv) <= MaxLogVoice
           /\ rec' = r
           /\ Commit(Rendered(h))
    /\ listeningForVoice' = FALSE
    /\ hist' = PlayHist("submit")
    /\ UNCHANGED <<isSubmittingAnswer, form, api, variant, processingFeedback, session>>

\* startRecognition's checkMicrophoneAvailability().then(getUserMedia.then(
\* setupAudioVisualization)): the check's own stream and the stream that goes
\* into streamRef are live, or the microphone is not available
MicrophoneReady ==
    /\ rec.viz
    /\ \E available \in BOOLEAN :
        rec' = IF available
               THEN [rec EXCEPT !.out = <<>>, !.viz = FALSE,
                                !.streams = @ \cup {"check", "capture"}]
               ELSE [rec EXCEPT !.out = <<>>, !.viz = FALSE, !.error = "microphone"]
    /\ hist' = PlayHist("microphone")
    /\ UNCHANGED <<isSubmittingAnswer, form, api, listeningForVoice, variant, conversation, lastMessageId,
                   processingFeedback, isSpeaking, lastAudioMessageIdRef, playedMessages,
                   players, timers, started, session>>

\* startMediaRecording after its awaits: the microphone check (its stream
\* stays live) and getUserMedia succeeded, the MediaRecorder is in
\* mediaRecorderRef and started, setRecording(true); or one of them threw.
\* A MediaRecorder that was in mediaRecorderRef goes on recording with its
\* own stream.
RecorderReady ==
    /\ \E i \in 1..Len(rec.recorders), available \in BOOLEAN :
        /\ rec.recorders[i].state = "starting"
        /\ LET r1 == IF available
                     THEN [rec EXCEPT
                             !.out = <<>>,
                             !.streams = @ \cup {"check", "capture"} \cup
                                 IF \E j \in 1..Len(rec.recorders) :
                                        rec.recorders[j].state = "recording"
                                 THEN {"orphan"} ELSE {},
                             !.recorders = [j \in 1..Len(rec.recorders) |->
                                 IF j = i THEN [rec.recorders[j] EXCEPT !.state = "recording",
                                                                        !.current = TRUE]
                                 ELSE [rec.recorders[j] EXCEPT
                                         !.state = IF @ = "recording" THEN "orphan" ELSE @,
                                         !.current = FALSE]],
                             !.recording = TRUE]
                     ELSE [rec EXCEPT
                             !.out = <<>>,
                             !.error = "microphone",
                             !.recorders = SubSeq(@, 1, i - 1) \o SubSeq(@, i + 1, Len(@)),
                             !.recording = FALSE]
               r == Effected(rec, r1, listeningForVoice)
           IN /\ r.made <= MaxInstances
              /\ rec' = r
    /\ hist' = PlayHist("recorder")
    /\ UNCHANGED <<isSubmittingAnswer, form, api, listeningForVoice, variant, conversation, lastMessageId,
                   processingFeedback, isSpeaking, lastAudioMessageIdRef, playedMessages,
                   players, timers, started, session>>

\* mediaRecorder.ondataavailable with speech in the chunk: it goes into the
\* audioChunksRef all recorders share
RecorderData ==
    /\ rec.spoken < MaxSpeech
    /\ \E i \in 1..Len(rec.recorders) : rec.recorders[i].state \in {"recording", "orphan"}
    /\ rec' = [rec EXCEPT !.out = <<>>, !.spoken = @ + 1,
                          !.chunks = Append(@, rec.spoken + 1)]
    /\ hist' = PlayHist("data")
    /\ UNCHANGED <<isSubmittingAnswer, form, api, listeningForVoice, variant, conversation, lastMessageId,
                   processingFeedback, isSpeaking, lastAudioMessageIdRef, playedMessages,
                   players, timers, started, session>>

\* mediaRecorder.onstop up to its await: the chunks are sent to
\* /api/transcribe; without chunks "No audio recorded" is shown and the
\* handler ends with cleanupAudio and setRecording(false)
RecorderStopped ==
    /\ \E i \in 1..Len(rec.recorders) :
        /\ rec.recorders[i].state = "stopped"
        /\ LET r1 == IF rec.chunks # <<>>
                     THEN [rec EXCEPT !.out = <<>>,
                                      !.requests = @ + 1,
                                      !.recorders[i].state = "upload",
                                      !.recorders[i].blob = rec.chunks]
                     ELSE cleanupAudio(
                          [rec EXCEPT !.out = <<>>,
                                      !.error = "no-audio",
                                      !.recorders = SubSeq(@, 1, i - 1) \o SubSeq(@, i + 1, Len(@)),
                                      !.recording = FALSE])
               r == Effected(rec, r1, listeningForVoice)
           IN /\ r.made <= MaxInstances
              /\ rec' = r
    /\ hist' = PlayHist("onstop")
    /\ UNCHANGED <<isSubmittingAnswer, form, api, listeningForVoice, variant, conversation, lastMessageId,
                   processingFeedback, isSpeaking, lastAudioMessageIdRef, playedMessages,
                   players, timers, started, session>>

\* white space in a transcript, the segments of speech being 1, 2, ...
Blank == 0

RECURSIVE TrimStart(_)
TrimStart(t) == IF t # <<>> /\ Head(t) = Blank THEN TrimStart(Tail(t)) ELSE t

RECURSIVE TrimEnd(_)
TrimEnd(t) ==
    IF t # <<>> /\ t[Len(t)] = Blank THEN TrimEnd(SubSeq(t, 1, Len(t) - 1)) ELSE t

\* String.prototype.trim
Trim(t) == TrimEnd(TrimStart(t))

\* data.transcript of an answer of /api/transcribe to a recording of blob:
\* nothing ("none"), white space ("blank"), the text ("text"), the text
\* with white space around it ("padded")
Answer(blob, outcome) ==
    CASE outcome = "none" -> <<>>
      [] outcome = "blank" -> <<Blank>>
      [] outcome = "padded" -> <<Blank>> \o blob \o <<Blank>>
      [] OTHER -> blob

\* what onstop does with the answer of /api/transcribe: the request failed
\* (ok false), or data.transcript is missing, blank after trim, or a text,
\* which goes trimmed to onTranscription
Transcription(r, ok, transcript) ==
    IF ~ok THEN [r EXCEPT !.error = "transcribe-failed"]
    ELSE IF transcript = <<>> THEN [r EXCEPT !.error = "no-speech", !.returned = transcript]
    ELSE IF Trim(transcript) = <<>>
         THEN [r EXCEPT !.error = "no-speech-in-recording", !.transcript = <<>>,
                        !.returned = transcript]
    ELSE [r EXCEPT !.out = <<Trim(transcript)>>, !.final = Trim(transcript),
                   !.returned = transcript, !.calls = @ + 1, !.transcript = <<>>]

\* mediaRecorder.onstop after its await, then cleanupAudio and
\* setRecording(false); onTranscription is handleVoiceInput
TranscribeResponse ==
    /\ \E i \in 1..Len(rec.recorders), outcome \in {"fail", "none", "blank", "text", "padded"} :
        /\ rec.recorders[i].state = "upload"
        /\ LET blob == rec.recorders[i].blob
               r1 == cleanupAudio(
                     [Transcription([rec EXCEPT !.out = <<>>], outcome # "fail",
                                    Answer(blob, outcome))
                        EXCEPT !.recorders = SubSeq(@, 1, i - 1) \o SubSeq(@, i + 1, Len(@)),
                               !.recording = FALSE])
               isListening == IF r1.out # <<>> THEN FALSE ELSE listeningForVoice
               r == IF r1.out # <<>> THEN ListeningEffect(r1, isListening)
                    ELSE Effected(rec, r1, isListening)
               h == Transcribed(Home, r1.out)
           IN /\ r.made <= MaxInstances
              /\ Len(h.conv) <= MaxLogVoice
              /\ rec' = r
              /\ listeningForVoice' = isListening
              /\ Commit(Rendered(h))
              /\ hist' = [PlayHist("transcribed") EXCEPT !.kind = outcome]
    /\ UNCHANGED <<isSubmittingAnswer, form, api, variant, processingFeedback, session>>

\* the page renders for a reason of its own (a key typed into the answer
\* field): handleVoiceInput is a new function, so are the callbacks of the
\* VoiceRecorder that depend on it, and the effect runs again
ParentRender ==
    /\ LET r == ListeningEffect([rec EXCEPT !.out = <<>>], listeningForVoice)
       IN /\ r # [rec EXCEPT !.out = <<>>]
          /\ r.made <= MaxInstances
          /\ rec' = r
    /\ Commit(Rendered([Home EXCEPT !.dirty = TRUE]))
    /\ hist' = PlayHist("render")
    /\ UNCHANGED <<isSubmittingAnswer, form, api, listeningForVoice, variant, processingFeedback, session>>

\* a stream that nothing refers to (the one of handleVoiceButtonClick, the one
\* of checkMicrophoneAvailability) is released when the browser collects it
StreamCollected ==
    /\ \E s \in rec.streams \cap {"permission", "check"} :
        rec' = [rec EXCEPT !.out = <<>>, !.streams = @ \ {s}]
    /\ hist' = PlayHist("collected")
    /\ UNCHANGED <<isSubmittingAnswer, form, api, listeningForVoice, variant, conversation, lastMessageId,
                   processingFeedback, isSpeaking, lastAudioMessageIdRef, playedMessages,
                   players, timers, started, session>>

NextVoice ==
    \/ ListenOn
    \/ ListenOff
    \/ RecognitionResult
    \/ RecognitionError
    \/ RecognitionEnd
    \/ SubmitTimer
    \/ MicrophoneReady
    \/ RecorderReady
    \/ RecorderData
    \/ RecorderStopped
    \/ TranscribeResponse
    \/ ParentRender
    \/ StreamCollected

SpecVoice == InitVoice /\ [][NextVoice]_vars

(***************************************************************************)
(* page.tsx: the handlers of the form.  A text is a sequence of segments,  *)
(* Blank being white space: empty, blank, or with something in it.         *)
(***************************************************************************)
Texts == {<<>>, <<Blank>>, <<1>>}

\* !text of JavaScript: the empty string is falsy
FalsyNever(text) == FALSE

Falsy(text) == text = <<>>

\* the /api/chat request of handleSubmitAnswer or handleVoiceInput is pending
IsSubmittingAnswer == \E t \in timers : t.kind = "chat"

\* the feedback turn of handleSubmitAnswer: `feedback-${Date.now()}`, stamped
\* Date.now() + 100
FeedbackMessage(now) ==
    [role |-> "feedback", content |-> "a", question |-> FALSE,
     needsAudioPlay |-> TRUE, messageId |-> 20000 + now, timestamp |-> now + 100]

\* the follow-up question: `interviewer-follow-up-${Date.now()}`, stamped
\* Date.now() + 1000
FollowUpMessage(now) ==
    [role |-> "interviewer", content |-> "b", question |-> TRUE,
     needsAudioPlay |-> TRUE, messageId |-> 30000 + now, timestamp |-> now + 1000]

InitInput ==
    /\ variant = "page"
    /\ conversation = <<>>
    /\ lastMessageId = NoId
    /\ processingFeedback = FALSE
    /\ isSpeaking = FALSE
    /\ lastAudioMessageIdRef = Null
    /\ playedMessages = {}
    /\ players = <<>>
    /\ timers = {}
    /\ started = FALSE
    /\ session = 0
    /\ listeningForVoice = FALSE
    /\ rec = NoRec
    /\ form = NoForm
    /\ api = NoApi
    /\ hist = NoHist
    /\ isSubmittingAnswer = FALSE

\* onChange of the company input, of the job description or of the answer
\* field
EditField ==
    /\ ~IsLoading
    /\ \E text \in Texts :
        \/ /\ ~started
           /\ form' = [form EXCEPT !.company = text]
        \/ /\ ~started
           /\ text # <<Blank>>
           /\ form' = [form EXCEPT !.jobDescription = text]
        \/ /\ started /\ ~listeningForVoice /\ ~IsSubmittingAnswer
           /\ form' = [form EXCEPT !.answer = text]
    /\ Commit(Rendered([Home EXCEPT !.dirty = TRUE]))
    /\ hist' = PlayHist("edit")
    /\ UNCHANGED <<isSubmittingAnswer, api, rec, listeningForVoice, variant, processingFeedback, session>>

\* handleStartInterview up to its await: without a job description or a
\* company the error is set and nothing else is done
handleStartInterview ==
    /\ ~started /\ ~IsLoading
    /\ IF Falsy(form.jobDescription) \/ Falsy(form.company)
       THEN /\ form' = [form EXCEPT !.error = "missing"]
            /\ session' = session
            /\ Commit(Rendered([Home EXCEPT !.dirty = TRUE]))
       ELSE /\ session < MaxSessions
            /\ session' = session + 1
            /\ form' = [form EXCEPT !.error = "none", !.requests = @ + 1]
            /\ Commit(Rendered([Home EXCEPT
                    !.conv = <<>>, !.ref = Null, !.last = NoId, !.dirty = TRUE,
                    !.timers = @ \cup {Timer("interview", <<>>, Null, lastMessageId,
                                             session + 1)}]))
    /\ hist' = [PlayHist("startInterview") EXCEPT
                  !.kind = IF form.jobDescription = <<>> \/ form.company = <<>>
                           THEN "blank" ELSE "none"]
    /\ UNCHANGED <<isSubmittingAnswer, api, rec, listeningForVoice, variant, processingFeedback>>

\* handleStartInterview after its await: the request failed ("fail"),
\* answered without questions ("empty") or with questions ("questions")
InterviewAnswered ==
    /\ \E t \in timers, outcome \in {"fail", "empty", "questions"}, now \in DateNow :
        /\ t.kind = "interview"
        /\ LET rest == [Home EXCEPT !.timers = @ \ {t}, !.dirty = TRUE]
               h == IF outcome = "questions"
                    THEN [AddTo(rest, Welcome(t.session, now), t.last) EXCEPT
                            !.started = TRUE,
                            !.timers = @ \cup {Timer("firstQuestion", <<>>, Null,
                                                     t.last, t.session)}]
                    ELSE rest
           IN /\ Commit(Rendered(h))
              /\ form' = CASE outcome = "questions" ->
                                [form EXCEPT !.questions = MaxQuestions,
                                             !.currentQuestionIndex = 0]
                            [] outcome = "empty" -> [form EXCEPT !.error = "no-questions"]
                            [] OTHER -> [form EXCEPT !.error = "start-failed"]
    /\ hist' = PlayHist("response")
    /\ UNCHANGED <<isSubmittingAnswer, api, rec, listeningForVoice, variant, processingFeedback, session>>

\* what handleSubmitAnswer and handleVoiceInput do with an answer that is not
\* blank: the candidate turn is added and /api/chat is asked for feedback
Submitted(h, text, now) ==
    [AddTo(h, VoiceMessage(text, now), h.last) EXCEPT
        !.dirty = TRUE,
        !.timers = @ \cup {Timer("chat", <<>>, Null, h.last, session)}]

\* handleSubmitAnswer up to its await: a blank answer sets the error and
\* nothing else
handleSubmitAnswer ==
    /\ started /\ ~listeningForVoice /\ ~IsSubmittingAnswer
    /\ IF Falsy(Trim(form.answer))
       THEN /\ form' = [form EXCEPT !.error = "no-answer"]
            /\ Commit(Rendered([Home EXCEPT !.dirty = TRUE]))
       ELSE /\ Len(conversation) < MaxLogInput /\ form.requests < MaxRequests
            /\ form' = [form EXCEPT !.answer = <<>>, !.error = "none", !.requests = @ + 1]
            /\ Commit(Rendered(Submitted(Home, form.answer, NowAfter(conversation))))
    /\ hist' = [PlayHist("submitAnswer") EXCEPT
                  !.kind = IF Trim(form.answer) = <<>> THEN "blank" ELSE "none"]
    /\ UNCHANGED <<isSubmittingAnswer, api, rec, listeningForVoice, variant, processingFeedback, session>>

\* handleVoiceInput, called by the VoiceRecorder with a transcript:
\* setListeningForVoice(false), and a transcript that is not blank goes the
\* way of a submitted answer
handleVoiceInput ==
    /\ started
    /\ listeningForVoice' = FALSE
    /\ \E transcript \in Texts :
        /\ IF Falsy(Trim(transcript))
           THEN /\ form' = form
                /\ Commit(Rendered([Home EXCEPT !.dirty = TRUE]))
           ELSE /\ Len(conversation) < MaxLogInput /\ form.requests < MaxRequests
                /\ form' = [form EXCEPT !.answer = transcript, !.error = "none",
                                        !.requests = @ + 1]
                /\ Commit(Rendered(Submitted(Home, transcript, NowAfter(conversation))))
        /\ hist' = [PlayHist("voiceInput") EXCEPT
                      !.kind = IF Trim(transcript) = <<>> THEN "blank" ELSE "none"]
    /\ UNCHANGED <<isSubmittingAnswer, api, rec, variant, processingFeedback, session>>

\* handleSubmitAnswer after its await: /api/chat failed ("fail"), or answered
\* with feedback, with or without a follow-up question
ChatResponse ==
    /\ \E t \in timers, outcome \in {"fail", "feedback", "followUp"} :
        /\ t.kind = "chat"
        /\ LET rest == [Home EXCEPT !.timers = @ \ {t}, !.dirty = TRUE]
               now == NowAfter(conversation)
               h == CASE outcome = "fail" -> rest
                      [] outcome = "feedback" -> AddTo(rest, FeedbackMessage(now), t.last)
                      [] OTHER ->
                           [AddTo(rest, FeedbackMessage(now), t.last) EXCEPT
                              !.timers = @ \cup {Timer("followUp", <<>>, Null,
                                                       FeedbackMessage(now).messageId,
                                                       t.session)}]
           IN /\ Len(h.conv) <= MaxLogInput
              /\ Commit(Rendered(h))
              /\ form' = CASE outcome = "fail" -> [form EXCEPT !.error = "submit-failed"]
                            [] outcome = "feedback" -> form
                            [] OTHER -> [form EXCEPT !.currentQuestionIndex = @ + 1]
    /\ hist' = PlayHist("chat")
    /\ UNCHANGED <<isSubmittingAnswer, api, rec, listeningForVoice, variant, processingFeedback, session>>

\* the timers of handleStartInterview (500 ms, the first question) and of
\* handleSubmitAnswer (1500 ms, the follow-up question)
InputTimer ==
    /\ \E t \in timers, now \in DateNow :
        /\ t.kind \in {"firstQuestion", "followUp"}
        /\ LET rest == [Home EXCEPT !.timers = @ \ {t}]
               h == IF t.kind = "firstQuestion"
                    THEN AddTo(rest, FirstQuestion(t.session, now), t.last)
                    ELSE AddTo(rest, FollowUpMessage(NowAfter(conversation)), t.last)
           IN /\ Len(h.conv) <= MaxLogInput
              /\ Commit(Rendered(h))
    /\ hist' = PlayHist("timer")
    /\ UNCHANGED <<isSubmittingAnswer, form, api, rec, listeningForVoice, variant, processingFeedback, session>>

NextInput ==
    \/ EditField
    \/ handleStartInterview
    \/ InterviewAnswered
    \/ handleSubmitAnswer
    \/ handleVoiceInput
    \/ ChatResponse
    \/ InputTimer
    \/ VoiceButtonClick
    \/ MicResponse
    \/ Restart

SpecInput == InitInput /\ [][NextInput]_vars

(***************************************************************************)
(* The route handlers /api/voice and /api/chat (its third copy, lines      *)
(* 321-609): a request with what the environment and the provider do with  *)
(* it, and the response.  A text is given by its length and by whether it  *)
(* is a string at all.                                                     *)
(***************************************************************************)
\* an exception on its way to the enclosing catch
Thrown == [thrown |-> TRUE]

MockAudioFailure == [status |-> 500, contentType |-> "application/json", mockData |-> FALSE]

\* getMockAudioResponse
getMockAudioResponse ==
    [status |-> 200, contentType |-> "application/json", mockData |-> TRUE]

VoiceTexts ==
    {[isString |-> TRUE, length |-> n] : n \in {0, 50, 120, 200}}
        \cup {[isString |-> FALSE, length |-> 1]}

\* a request to /api/voice: whether request.json() throws, the text,
\* ELEVENLABS_API_KEY set or not, what the provider does, the flags
VoiceRequests ==
    [parse : {"ok", "throws"}, text : VoiceTexts, key : BOOLEAN,
     provider : {"audio", "non2xx", "throws", "bodyThrows"},
     priority : BOOLEAN, safari : BOOLEAN]

\* processedText: feedback is cut to two sentences (Safari, more than 100
\* characters) or three (more than 150)
processedText(req) ==
    IF req.priority /\ req.safari /\ req.text.length > 100 THEN "two sentences"
    ELSE IF req.priority /\ req.text.length > 150 THEN "three sentences"
    ELSE "text"

\* the inner try of POST: the call of the provider
VoiceProvider(req) ==
    CASE req.provider = "throws" -> Thrown
      [] req.provider = "non2xx" -> getMockAudioResponse
      [] req.provider = "bodyThrows" -> Thrown
      [] OTHER -> [status |-> 200, contentType |-> "audio/mpeg", mockData |-> FALSE]

\* the outer try of POST; text.substring throws when text is not a string
VoiceTry(req) ==
    IF req.parse = "throws" THEN Thrown
    ELSE IF req.text.isString /\ req.text.length = 0
         THEN [status |-> 400, contentType |-> "application/json", mockData |-> FALSE]
    ELSE IF ~req.key THEN getMockAudioResponse
    ELSE IF ~req.text.isString THEN Thrown
    ELSE IF VoiceProvider(req) = Thrown THEN getMockAudioResponse
    ELSE VoiceProvider(req)

\* POST of /api/voice
VoicePOST(req) == IF VoiceTry(req) = Thrown THEN getMockAudioResponse ELSE VoiceTry(req)

\* a request to /api/chat: the answer by its length and the number of
\* keywords in it, whether a question is given, OPENAI_API_KEY, the mode,
\* and what the provider answers: it throws, its content is empty, is not
\* JSON, is JSON without the fields asked for, or is the feedback asked for
ChatRequests ==
    [parse : {"ok", "throws"},
     userAnswer : [length : {0, 20, 100, 400}, keywords : {0, 3}],
     question : BOOLEAN, key : BOOLEAN,
     interviewMode : {"technical", "behavioral"}, generateFollowUp : BOOLEAN,
     provider : {"throws", "empty", "unparsable", "partial", "complete"}]

\* getMockFeedback: the score from the length of the answer and its
\* keywords, three strengths, three improvements, a feedback text
getMockFeedback(req) ==
    LET answerLength == req.userAnswer.length
        score == IF answerLength < 50 THEN 2 ELSE IF answerLength > 300 THEN 4 ELSE 3
    IN [status |-> 200, feedback |-> TRUE, strengths |-> 3, improvements |-> 3,
        score |-> IF req.userAnswer.keywords >= 3 THEN Min({5, score + 1}) ELSE score,
        followUp |-> req.generateFollowUp]

\* JSON.parse(completion.choices[0]?.message?.content || '{}'), returned as
\* it is; Null stands for a field that is not there
ChatProvider(req) ==
    CASE req.provider = "throws" -> Thrown
      [] req.provider = "unparsable" -> Thrown
      [] req.provider = "empty" ->
           [status |-> 200, feedback |-> FALSE, strengths |-> Null, improvements |-> Null,
            score |-> Null, followUp |-> FALSE]
      [] req.provider = "partial" ->
           [status |-> 200, feedback |-> TRUE, strengths |-> Null, improvements |-> Null,
            score |-> Null, followUp |-> FALSE]
      [] OTHER ->
           [status |-> 200, feedback |-> TRUE, strengths |-> 2, improvements |-> 2,
            score |-> 4, followUp |-> req.generateFollowUp]

\* the outer try of POST
ChatTry(req) ==
    IF req.parse = "throws" THEN Thrown
    ELSE IF req.userAnswer.length = 0 \/ ~req.question
         THEN [status |-> 400, feedback |-> FALSE, strengths |-> Null, improvements |-> Null,
               score |-> Null, followUp |-> FALSE]
    ELSE IF ~req.key THEN getMockFeedback(req)
    ELSE IF ChatProvider(req) = Thrown THEN getMockFeedback(req)
    ELSE ChatProvider(req)

\* POST of /api/chat: the outer catch answers 500 with an empty feedback
ChatPOST(req) ==
    IF ChatTry(req) = Thrown
    THEN [status |-> 500, feedback |-> TRUE, strengths |-> 0, improvements |-> 0,
          score |-> 0, followUp |-> FALSE]
    ELSE ChatTry(req)

InitRoute ==
    /\ variant = "page"
    /\ conversation = <<>>
    /\ lastMessageId = NoId
    /\ processingFeedback = FALSE
    /\ isSpeaking = FALSE
    /\ lastAudioMessageIdRef = Null
    /\ playedMessages = {}
    /\ players = <<>>
    /\ timers = {}
    /\ started = FALSE
    /\ session = 0
    /\ listeningForVoice = FALSE
    /\ rec = NoRec
    /\ form = NoForm
    /\ api = NoApi
    /\ hist = NoHist
    /\ isSubmittingAnswer = FALSE

\* a request to /api/voice is answered; the handler keeps no state from one
\* request to the next
VoiceRequest ==
    /\ api = NoApi
    /\ \E req \in VoiceRequests :
        api' = [route |-> "voice", req |-> req, res |-> VoicePOST(req),
                sent |-> IF VoicePOST(req).contentType = "audio/mpeg"
                         THEN processedText(req) ELSE "none"]
    /\ UNCHANGED <<isSubmittingAnswer, form, hist, rec, listeningForVoice, variant, conversation, lastMessageId,
                   processingFeedback, isSpeaking, lastAudioMessageIdRef, playedMessages,
                   players, timers, started, session>>

\* a request to /api/chat is answered
ChatRequest ==
    /\ api = NoApi
    /\ \E req \in ChatRequests :
        api' = [route |-> "chat", req |-> req, res |-> ChatPOST(req), sent |-> "none"]
    /\ UNCHANGED <<isSubmittingAnswer, form, hist, rec, listeningForVoice, variant, conversation, lastMessageId,
                   processingFeedback, isSpeaking, lastAudioMessageIdRef, playedMessages,
                   players, timers, started, session>>

NextRoute ==
    \/ VoiceRequest
    \/ ChatRequest

SpecRoute == InitRoute /\ [][NextRoute]_vars

(***************************************************************************)
(* part_003: the page with Previous and Next.  Question i (from 0) has its *)
(* saved answer at userAnswers[i + 1]; a question without a saved answer   *)
(* has <<>>, which is what `userAnswers[i] || ''` gives.                    *)
(***************************************************************************)
Answers == {<<>>, <<1>>, <<2>>}

NoAnswers == [i \in 1..MaxQuestions |-> <<>>]

InitNav ==
    /\ variant = "part_003"
    /\ conversation = <<>>
    /\ lastMessageId = NoId
    /\ processingFeedback = FALSE
    /\ isSpeaking = FALSE
    /\ lastAudioMessageIdRef = Null
    /\ playedMessages = {}
    /\ players = <<>>
    /\ timers = {}
    /\ started = FALSE
    /\ session = 0
    /\ listeningForVoice = FALSE
    /\ rec = NoRec
    /\ form = [NoForm EXCEPT !.userAnswers = NoAnswers, !.entered = NoAnswers]
    /\ api = NoApi
    /\ hist = NoHist
    /\ isSubmittingAnswer = FALSE

\* onChange of the company input or of the job description
NavFill ==
    /\ ~started
    /\ \E text \in {<<>>, <<1>>} :
        \/ form' = [form EXCEPT !.company = text]
        \/ form' = [form EXCEPT !.jobDescription = text]
    /\ hist' = PlayHist("edit")
    /\ UNCHANGED <<isSubmittingAnswer, api, rec, listeningForVoice, variant, conversation, lastMessageId,
                   processingFeedback, isSpeaking, lastAudioMessageIdRef, playedMessages,
                   players, timers, started, session>>

\* handleStartInterview with its answer from /api/interview (while it waits
\* the button is disabled and nothing it reads can change): an alert without
\* company or job description, after a failure or without questions, else
\* setQuestions and setStarted(true); the index, the saved answers and the
\* answer field are left as they are.  The questions are new ones: nothing
\* has been entered for them.
NavStart ==
    /\ ~started
    /\ \E n \in 0..MaxQuestions :
        IF Falsy(form.jobDescription) \/ Falsy(form.company) \/ n = 0
        THEN /\ form' = [form EXCEPT !.error = "alert"]
             /\ started' = started
        ELSE /\ form' = [form EXCEPT !.error = "none", !.questions = n,
                                     !.requests = 1, !.entered = NoAnswers]
             /\ started' = TRUE
    /\ hist' = PlayHist("start")
    /\ UNCHANGED <<isSubmittingAnswer, api, rec, listeningForVoice, variant, conversation, lastMessageId,
                   processingFeedback, isSpeaking, lastAudioMessageIdRef, playedMessages,
                   players, timers, session>>

\* onChange of the answer field: setCurrentAnswer
NavType ==
    /\ started
    /\ form.currentQuestionIndex < form.questions
    /\ \E text \in Answers :
        form' = [form EXCEPT !.answer = text,
                             !.entered[form.currentQuestionIndex + 1] = text]
    /\ hist' = PlayHist("type")
    /\ UNCHANGED <<isSubmittingAnswer, api, rec, listeningForVoice, variant, conversation, lastMessageId,
                   processingFeedback, isSpeaking, lastAudioMessageIdRef, playedMessages,
                   players, timers, started, session>>

\* handleNextQuestion: the answer is saved; not on the last question, the
\* index goes up and the answer field is emptied
handleNextQuestion ==
    /\ started
    /\ form.currentQuestionIndex < MaxQuestions
    /\ LET saved == [form EXCEPT !.userAnswers[form.currentQuestionIndex + 1] = form.answer]
       IN form' = IF form.currentQuestionIndex < form.questions - 1
                  THEN [saved EXCEPT !.currentQuestionIndex = @ + 1, !.answer = <<>>]
                  ELSE [saved EXCEPT !.error = "alert"]
    /\ hist' = PlayHist("next")
    /\ UNCHANGED <<isSubmittingAnswer, api, rec, listeningForVoice, variant, conversation, lastMessageId,
                   processingFeedback, isSpeaking, lastAudioMessageIdRef, playedMessages,
                   players, timers, started, session>>

\* handlePrevQuestion: the index goes down and the answer field takes the
\* saved answer of that question
handlePrevQuestion ==
    /\ started
    /\ form.currentQuestionIndex > 0
    /\ form' = [form EXCEPT !.currentQuestionIndex = @ - 1,
                            !.answer = form.userAnswers[form.currentQuestionIndex]]
    /\ hist' = PlayHist("prev")
    /\ UNCHANGED <<isSubmittingAnswer, api, rec, listeningForVoice, variant, conversation, lastMessageId,
                   processingFeedback, isSpeaking, lastAudioMessageIdRef, playedMessages,
                   players, timers, started, session>>

\* the End Interview button: setStarted(false)
EndInterview ==
    /\ started
    /\ started' = FALSE
    /\ form' = form
    /\ hist' = PlayHist("end")
    /\ UNCHANGED <<isSubmittingAnswer, api, rec, listeningForVoice, variant, conversation, lastMessageId,
                   processingFeedback, isSpeaking, lastAudioMessageIdRef, playedMessages,
                   players, timers, session>>

NextNav ==
    \/ NavFill
    \/ NavStart
    \/ NavType
    \/ handleNextQuestion
    \/ handlePrevQuestion
    \/ EndInterview

SpecNav == InitNav /\ [][NextNav]_vars

(***************************************************************************)
(* SpecFlow: part_002 with the interview in progress: answers typed or     *)
(* spoken, their feedback, the follow-up questions and the end of a        *)
(* playback.                                                               *)
(*                                                                         *)
(* A handler runs in the closure of the render that made it: c holds what  *)
(* that render saw of processingFeedback (pf), conversation (conv) and     *)
(* currentQuestionIndex (idx).  timers holds the pending setTimeout        *)
(* callbacks and /api/chat requests of Home, each with its closure and the *)
(* turn it is about.  Date.now() is later than every timestamp of the log: *)
(* the candidate answers a question after the time it is stamped with.     *)
(***************************************************************************)
FlowAnswers == {<<1>>, <<2>>}
\* feedback.feedback of an /api/chat response, and its follow_up_question:
\* the one feedback comes with a follow-up question, the other without
FeedbackTexts == {"f", "g"}
FollowUpOf(text) == IF text = "f" THEN "q" ELSE "none"

\* the first question is stamped baseTime + 3000
FirstQuestionGap == 3000
\* feedbackTimestamp = Date.now() + 100 of the voice path
VoiceFeedbackDelay == 100
\* followUpTimestamp = feedbackTimestamp + estimatedAudioDuration + 1000,
\* estimatedAudioDuration being 2000 at least
VoiceFollowUpGap == 3000

Turn(role, content, question, id, stamp, followUp) ==
    [role |-> role, content |-> content, question |-> question,
     needsAudioPlay |-> role # "candidate", messageId |-> id, timestamp |-> stamp,
     followUp |-> followUp]

\* currentMessage of handleAudioPlaybackEnded when there is none
NoTurn == Turn("none", "", FALSE, NoId, NoStamp, "none")

\* `${kind}-${Date.now()}`: kind 1 candidate, 2 candidate-voice, 3 feedback,
\* 4 follow-up, 5 generic-follow-up, 6 conclusion
TurnId(kind, now) == 10 * now + kind

FlowNow(conv) == Max({StampOf(conv[i]) : i \in 1..Len(conv)} \cup {Max(DateNow)}) + 1

Closure(f) == [pf |-> f.pf, conv |-> f.conv, idx |-> f.idx]

Task(kind, c, msg) == [kind |-> kind, c |-> c, msg |-> msg]

\* conversation.findIndex(msg => msg.messageId === id)
findIndex(conv, id) ==
    LET found == {i \in Indices(conv) : conv[i + 1].messageId = id}
    IN IF found = {} THEN Null ELSE Min(found)

\* the state of Home a handler works on; touched: setConversation was given
\* a new array
FlowHome ==
    [conv |-> conversation, pf |-> processingFeedback, sub |-> isSubmittingAnswer,
     idx |-> form.currentQuestionIndex, answer |-> form.answer, error |-> form.error,
     requests |-> form.requests, timers |-> timers, ref |-> lastAudioMessageIdRef,
     speaking |-> isSpeaking, listening |-> listeningForVoice, touched |-> FALSE]

\* React renders Home and runs the effect of line 108 if conversation or
\* isSpeaking changed.  The effect of line 1010 runs after it and finds the
\* ref set whenever a turn needs audio: it sets no timer.
FlowCommit(f) ==
    /\ conversation' = f.conv
    /\ processingFeedback' = f.pf
    /\ isSubmittingAnswer' = f.sub
    /\ isSpeaking' = f.speaking
    /\ listeningForVoice' = f.listening
    /\ timers' = f.timers
    /\ form' = [form EXCEPT !.currentQuestionIndex = f.idx, !.answer = f.answer,
                            !.error = f.error, !.requests = f.requests]
    /\ lastAudioMessageIdRef' =
           IF f.conv # conversation \/ f.speaking # isSpeaking \/ f.touched
           THEN EffectLastAudio(f.conv, f.speaking, f.ref) ELSE f.ref

\* addMessageToConversation of the render c, lines 169-286: an interviewer
\* or feedback turn is put off by 3 s while that render's processingFeedback
\* is set, any other turn goes through the updater
addMessageToConversationFrom(f, c, m) ==
    IF c.pf /\ m.role \in {"interviewer", "feedback"}
    THEN [f EXCEPT !.timers = @ \cup {Task("retry", [pf |-> c.pf, conv |-> <<>>, idx |-> 0], m)}]
    ELSE [f EXCEPT !.conv = addMessageToConversation(@, m)]

\* the generic follow-up names the category of questions[currentQuestionIndex]
GenericFollowUp(idx) == IF idx < form.questions THEN "generic-category" ELSE "generic"

\* addNextQuestion without its last setTimeout: processingFeedback stays set
addNextQuestionNoRelease(f, c, feedbackMessage, now) ==
    IF c.pf THEN f
    ELSE LET followUp == feedbackMessage.followUp # "none"
             q == Turn("interviewer",
                       IF followUp THEN feedbackMessage.followUp ELSE GenericFollowUp(c.idx),
                       TRUE, TurnId(IF followUp THEN 4 ELSE 5, now), now, "none")
         IN addMessageToConversationFrom([f EXCEPT !.pf = TRUE, !.idx = @ + 1], c, q)

\* addNextQuestion of the render c
addNextQuestion(f, c, feedbackMessage, now) ==
    IF c.pf THEN f
    ELSE LET followUp == feedbackMessage.followUp # "none"
             q == Turn("interviewer",
                       IF followUp THEN feedbackMessage.followUp ELSE GenericFollowUp(c.idx),
                       TRUE, TurnId(IF followUp THEN 4 ELSE 5, now), now, "none")
             f1 == addMessageToConversationFrom([f EXCEPT !.pf = TRUE, !.idx = @ + 1], c, q)
         IN [f1 EXCEPT !.timers = @ \cup {Task("release", c, feedbackMessage)}]

\* handleAudioPlaybackEnded of the render c
handleAudioPlaybackEndedSequenced(f, c) ==
    LET currentAudioIndex == f.ref
        currentMessage == IF currentAudioIndex # Null /\ currentAudioIndex \in Indices(c.conv)
                          THEN c.conv[currentAudioIndex + 1] ELSE NoTurn
        f1 == [f EXCEPT !.ref = Null, !.speaking = FALSE]
    IN IF currentMessage.role = "feedback"
       THEN [f1 EXCEPT !.timers = @ \cup {Task("next", c, currentMessage)}]
       ELSE [f1 EXCEPT !.timers = @ \cup {Task("select", c, NoTurn)}]

FlowHist(op) == [hist EXCEPT !.op = op]

\* the interview view after handleStartInterview and its timer: the welcome
\* turn and the first question are in the log
InitFlow ==
    /\ variant = "part_002"
    /\ conversation = <<Turn("interviewer", "welcome", FALSE, WelcomeId, Max(DateNow), "none"),
                        Turn("interviewer", "q0", TRUE, FirstQuestionId,
                             Max(DateNow) + FirstQuestionGap, "none")>>
    /\ lastMessageId = NoId
    /\ processingFeedback = FALSE
    /\ isSubmittingAnswer = FALSE
    /\ isSpeaking = FALSE
    /\ lastAudioMessageIdRef = 1
    /\ playedMessages = {}
    /\ players = <<>>
    /\ timers = {}
    /\ started = TRUE
    /\ session = 1
    /\ listeningForVoice = FALSE
    /\ rec = NoRec
    /\ form = [NoForm EXCEPT !.questions = MaxQuestions]
    /\ api = NoApi
    /\ hist = NoHist

\* handleSubmitAnswer up to its await; text is what the answer field holds.
\* The field and its button are rendered while currentQuestionIndex is below
\* questions.length, the button is disabled while isSubmittingAnswer or
\* isSpeaking
handleSubmitAnswerSequenced ==
    /\ started /\ ~listeningForVoice /\ ~isSubmittingAnswer /\ ~isSpeaking
    /\ form.currentQuestionIndex < form.questions
    /\ form.requests < MaxAnswers
    /\ \E text \in FlowAnswers :
        LET c == Closure(FlowHome)
            now == FlowNow(conversation)
            candidate == Turn("candidate", text, FALSE, TurnId(1, now), now, "none")
            f == addMessageToConversationFrom(
                     [FlowHome EXCEPT !.pf = TRUE, !.answer = <<>>, !.sub = TRUE,
                                      !.error = "none", !.requests = @ + 1],
                     c, candidate)
        IN FlowCommit([f EXCEPT !.timers = @ \cup {Task("chat", c, candidate)}])
    /\ hist' = FlowHist("submit")
    /\ UNCHANGED <<variant, lastMessageId, playedMessages, players, started, session,
                   rec, api>>

\* handleVoiceInput, called by the VoiceRecorder with a transcript (blank or
\* not), up to the await of submitAnswer
handleVoiceInputSequenced ==
    /\ started
    /\ form.requests < MaxAnswers
    /\ \E transcript \in FlowAnswers \cup {<<Blank>>} :
        LET c == Closure(FlowHome)
            now == FlowNow(conversation)
            candidate == Turn("candidate", transcript, FALSE, TurnId(2, now), now, "none")
            f == addMessageToConversationFrom(
                     [FlowHome EXCEPT !.listening = FALSE, !.pf = TRUE, !.answer = transcript,
                                      !.sub = TRUE, !.error = "none", !.requests = @ + 1],
                     c, candidate)
        IN /\ FlowCommit(
                IF c.pf THEN [FlowHome EXCEPT !.listening = FALSE]
                ELSE IF Falsy(Trim(transcript))
                THEN [FlowHome EXCEPT !.listening = FALSE, !.pf = FALSE]
                ELSE [f EXCEPT !.timers = @ \cup {Task("voiceChat", c, candidate)}])
           /\ hist' = FlowHist(IF c.pf THEN "voiceRejected"
                               ELSE IF Falsy(Trim(transcript)) THEN "voiceBlank"
                               ELSE "voice")
    /\ UNCHANGED <<variant, lastMessageId, playedMessages, players, started, session,
                   rec, api>>

\* handleSubmitAnswer and submitAnswer after the await: /api/chat failed, or
\* answered with feedback and, may be, a follow-up question
ChatAnswered ==
    /\ \E t \in timers, ok \in BOOLEAN, text \in FeedbackTexts :
        /\ t.kind \in {"chat", "voiceChat"}
        /\ LET rest == [FlowHome EXCEPT !.timers = @ \ {t}]
               now == FlowNow(conversation)
               feedback == Turn("feedback", text, FALSE, TurnId(3, now),
                                IF t.kind = "chat" THEN now ELSE now + VoiceFeedbackDelay,
                                FollowUpOf(text))
               added == addMessageToConversationFrom(rest, t.c, feedback)
           IN /\ FlowCommit(
                    IF ~ok
                    THEN [rest EXCEPT !.error = "submit-failed", !.pf = FALSE, !.sub = FALSE]
                    ELSE IF t.kind = "chat"
                    THEN [added EXCEPT !.timers = @ \cup {Task("found", t.c, feedback)}]
                    ELSE [added EXCEPT !.timers = @ \cup {Task("voiceFound", t.c, feedback)},
                                       !.answer = <<>>, !.sub = FALSE])
              /\ hist' = [FlowHist(IF ok THEN "feedback" ELSE "failed") EXCEPT
                            !.answered = IF ok
                                         THEN @ \cup {[answer |-> t.msg.messageId,
                                                       text |-> t.msg.content,
                                                       feedback |-> feedback.messageId]}
                                         ELSE @]
    /\ UNCHANGED <<variant, lastMessageId, playedMessages, players, started, session,
                   rec, api>>

\* Home after the setTimeout callback t has run at time now
TimerFired(t, now) ==
    LET rest == [FlowHome EXCEPT !.timers = @ \ {t}]
        feedbackIndex == findIndex(t.c.conv, t.msg.messageId)
        next == findNextAudioMessageIndex(t.c.conv)
        followUp == Turn("interviewer", t.msg.followUp, TRUE, TurnId(4, now),
                         t.msg.timestamp + VoiceFollowUpGap, "none")
        conclusion == Turn("interviewer", "conclusion", FALSE, TurnId(6, now),
                           t.msg.timestamp + VoiceFollowUpGap, "none")
    IN CASE t.kind = "found" ->
              \* the 500 ms timer of handleSubmitAnswer
              [(IF feedbackIndex # Null THEN [rest EXCEPT !.ref = feedbackIndex]
                ELSE addNextQuestion(rest, t.c, t.msg, now))
               EXCEPT !.sub = FALSE]
         [] t.kind = "voiceFound" ->
              \* the 500 ms timer of submitAnswer
              IF feedbackIndex # Null
              THEN [rest EXCEPT !.timers = @ \cup {Task("play", t.c, t.msg),
                                                   Task("voiceFollowUp", t.c, t.msg)}]
              ELSE [rest EXCEPT !.pf = FALSE]
         [] t.kind = "play" ->
              \* the 300 ms timer of playFeedbackAudio
              [rest EXCEPT !.speaking = FALSE, !.ref = feedbackIndex, !.touched = TRUE]
         [] t.kind = "voiceFollowUp" ->
              \* the timer of submitAnswer after the estimated playback
              [(IF t.msg.followUp # "none"
                THEN addMessageToConversationFrom([rest EXCEPT !.idx = @ + 1], t.c, followUp)
                ELSE IF t.c.idx >= form.questions - 1
                THEN addMessageToConversationFrom(rest, t.c, conclusion)
                ELSE rest)
               EXCEPT !.pf = FALSE]
         [] t.kind = "release" ->
              \* the 1000 ms timer of addNextQuestion
              [rest EXCEPT !.pf = FALSE]
         [] t.kind = "next" ->
              \* the 300 ms timer of handleAudioPlaybackEnded
              addNextQuestion(rest, t.c, t.msg, now)
         [] OTHER ->
              \* the 200 ms timer of handleAudioPlaybackEnded
              [rest EXCEPT !.ref = IF next # Null THEN next ELSE @]

\* a setTimeout callback of Home other than the retry of a deferred turn
FlowTimer ==
    /\ \E t \in timers :
        /\ t.kind \in {"found", "voiceFound", "play", "voiceFollowUp", "release", "next",
                       "select"}
        /\ \E f \in {TimerFired(t, FlowNow(conversation))} : FlowCommit(f)
        /\ hist' = FlowHist(t.kind)
    /\ UNCHANGED <<variant, lastMessageId, playedMessages, players, started, session,
                   rec, api>>

\* the 3 s timer of a deferred turn: addMessageToConversation(completeMessage)
\* of the render that deferred it
RetryTimer ==
    /\ \E t \in timers :
        /\ t.kind = "retry"
        /\ FlowCommit(addMessageToConversationFrom([FlowHome EXCEPT !.timers = @ \ {t}],
                                                   t.c, t.msg))
    /\ hist' = FlowHist("retry")
    /\ UNCHANGED <<variant, lastMessageId, playedMessages, players, started, session,
                   rec, api>>

NextFlow ==
    \/ handleSubmitAnswerSequenced
    \/ handleVoiceInputSequenced
    \/ ChatAnswered
    \/ FlowTimer
    \/ RetryTimer

SpecFlow == InitFlow /\ [][NextFlow]_vars

\* responses and timers are scheduled fairly; the candidate is not
SpecFlowFair ==
    /\ SpecFlow
    /\ WF_vars(ChatAnswered)
    /\ WF_vars(FlowTimer)
    /\ WF_vars(RetryTimer)

(***************************************************************************)
(* SpecFlowAudio: SpecFlow with the playback of the current turn.          *)
(***************************************************************************)
\* Home renders (on a keystroke, say) with the AudioPlayer of the current
\* index, which has not played yet; its playAudioOnce reaches
\* onPlaybackStart: handleAudioPlaybackStarted
FlowPlaybackStarted ==
    /\ ~isSpeaking /\ players = <<>>
    /\ RenderTarget(started, conversation, lastAudioMessageIdRef) # Null
    /\ lastAudioMessageIdRef \notin playedMessages
    /\ playedMessages' = playedMessages \cup {lastAudioMessageIdRef}
    /\ players' = <<[idx |-> lastAudioMessageIdRef, c |-> Closure(FlowHome)]>>
    /\ FlowCommit([FlowHome EXCEPT !.speaking = TRUE])
    /\ hist' = FlowHist("started")
    /\ UNCHANGED <<variant, lastMessageId, started, session, rec, api>>

\* onPlaybackEnd of that AudioPlayer: handleAudioPlaybackEnded of the render
\* that mounted it
FlowPlaybackEnded ==
    /\ players # <<>>
    /\ players' = <<>>
    /\ FlowCommit(handleAudioPlaybackEndedSequenced(FlowHome, players[1].c))
    /\ hist' = FlowHist("ended")
    /\ UNCHANGED <<variant, lastMessageId, playedMessages, started, session, rec, api>>

NextFlowAudio ==
    \/ NextFlow
    \/ FlowPlaybackStarted
    \/ FlowPlaybackEnded

SpecFlowAudio == InitFlow /\ [][NextFlowAudio]_vars

(***************************************************************************)
(* Properties of the log.                                                  *)
(***************************************************************************)
\* turn i (1-based) has no candidate turn positioned after it
Unanswered(conv, i) == \A j \in (i + 1)..Len(conv) : conv[j].role # "candidate"

UnansweredQuestions(conv) ==
    {i \in 1..Len(conv) : IsQuestion(conv[i]) /\ Unanswered(conv, i)}

\* feedback turns after candidate turn i and before the next candidate turn
FeedbackOf(conv, i) ==
    {j \in (i + 1)..Len(conv) :
        /\ conv[j].role = "feedback"
        /\ \A k \in (i + 1)..j : conv[k].role # "candidate"}

\* C1: in every log reachable through addMessageToConversation of part_002
\* (any roles, contents, ids and timestamps, in any order) at most one
\* interviewer turn carrying a question has no candidate turn after it.
C1_OneUnansweredQuestion ==
    variant = "part_002" => Cardinality(UnansweredQuestions(conversation)) <= 1

\* a second question was held back while one was pending, among two questions
C1_Witness ==
    /\ variant = "part_002"
    /\ Cardinality({i \in 1..Len(conversation) : IsQuestion(conversation[i])}) >= 2
    /\ Cardinality(UnansweredQuestions(conversation)) = 1
    /\ hist.op = "add" /\ ~hist.changed /\ ~hist.dup

\* C2: in every log reachable through addMessageToConversation of part_002
\* each candidate turn is followed by at most one feedback turn before the
\* next candidate turn or the end of the log.
C2_OneFeedbackPerAnswer ==
    variant = "part_002" =>
        \A i \in 1..Len(conversation) :
            conversation[i].role = "candidate" =>
                Cardinality(FeedbackOf(conversation, i)) <= 1

\* C3: after any sequence of calls, accepted or rejected, in either variant,
\* the log is ordered by non-decreasing timestamp, also when the timestamp
\* of an accepted question was adjusted.
C3_SortedByTimestamp ==
    \A i, j \in 1..Len(conversation) :
        i < j => conversation[i].timestamp <= conversation[j].timestamp

\* a question was accepted with an adjusted timestamp and sorted into a log
\* of three turns or more
C3_Witness ==
    /\ hist.op = "add" /\ hist.adjusted
    /\ Len(conversation) >= 3

\* C4: a call whose messageId or (role, content) equals that of a turn of the
\* log leaves the log unchanged, and no log holds two turns with the same
\* messageId or the same (role, content); in either variant.
C4_DuplicatesRejected ==
    /\ (hist.op = "add" /\ hist.dup) => ~hist.changed
    /\ \A i, j \in 1..Len(conversation) :
          i # j => /\ conversation[i].messageId # conversation[j].messageId
                   /\ ~(conversation[i].role = conversation[j].role
                        /\ conversation[i].content = conversation[j].content)

\* a duplicate was offered to a log of two turns
C4_Witness ==
    /\ hist.op = "add" /\ hist.dup
    /\ Len(conversation) >= 2

(***************************************************************************)
(* Properties of the audio sequencing.                                     *)
(***************************************************************************)
\* a playback is in progress: started, its end still to come
InProgress(p) == p.pc \in {"mock", "audio"} /\ p.starts > p.ends

\* C5: playback is serialized: in no state are the playbacks of two turns
\* in progress at once, each between its onPlaybackStart and its
\* onPlaybackEnd, in real and in mock audio mode.
C5_PlaybackSerialized ==
    \A i, j \in 1..Len(players) :
        (InProgress(players[i]) /\ InProgress(players[j]))
            => players[i].turn = players[j].turn

\* C6: every playAudioOnce call that passes its guard calls onPlaybackStart
\* once and onPlaybackEnd once, the start before the end, whatever the
\* outcome: playback, mock, failed request, rejected play(), element error.
C6_StartAndEndOnce ==
    /\ \A i \in 1..Len(players) : players[i].ends <= players[i].starts
    /\ (hist.op = "done" => hist.done = <<1, 1>>)

\* C7: isSpeaking never stays true: once true it becomes false again when
\* callbacks and timers are scheduled fairly, also when playback fails, when
\* the current index moves to another turn, and when the interview restarts.
C7_SpeakingEnds == isSpeaking ~> ~isSpeaking

\* C8: a turn whose audio has finished playing is not returned by the
\* next-audio selection again until the conversation is reset.
C8_FinishedNotSelected ==
    hist.op = "select" => hist.selected \notin hist.finishedTurns

\* C9: within one interview no turn's audio is started twice, also when an
\* insertion sorts before turns already played and moves their indices.
C9_NoReplay == ~hist.replayed

\* C10: after handleRestart the log is empty and the playback state is
\* cleared: no current index, isSpeaking false, no played message ids,
\* lastMessageId and processingFeedback reset.
C10_RestartClears ==
    hist.op = "restart" =>
        /\ conversation = <<>>
        /\ lastAudioMessageIdRef = Null
        /\ ~isSpeaking
        /\ playedMessages = {}
        /\ lastMessageId = NoId
        /\ ~processingFeedback

\* C11: after a restart no turn of a timer or response issued before the
\* restart is appended to the reset conversation.
C11_NoStaleTurn == ~(hist.op = "stale" /\ hist.changed)

(***************************************************************************)
(* The guards of part_002, call by call.                                   *)
(***************************************************************************)
\* the latest question of the log is positioned after the latest candidate
\* turn, or there is a question and no candidate turn
QuestionPending(conv) ==
    \E i \in 1..Len(conv) :
        /\ IsQuestion(conv[i])
        /\ \A j \in (i + 1)..Len(conv) : ~IsCandidate(conv[j])

\* C12: when the latest question is positioned after the latest candidate
\* turn (or no candidate turn exists), a call of part_002's
\* addMessageToConversation with another question leaves the log unchanged.
C12_SecondQuestionRejected ==
    [][(/\ variant = "part_002"
        /\ QuestionPending(conversation)
        /\ hist'.op = "add" /\ hist'.kind = "question")
       => conversation' = conversation]_vars

\* a question that is no duplicate was offered while one was pending
C12_Witness ==
    /\ variant = "part_002"
    /\ hist.op = "add" /\ hist.kind = "question" /\ ~hist.dup /\ ~hist.changed
    /\ QuestionPending(conversation)

\* the log has a candidate turn and no feedback turn positioned after the
\* latest one
FeedbackDue(conv) ==
    \E i \in 1..Len(conv) :
        /\ IsCandidate(conv[i])
        /\ \A j \in (i + 1)..Len(conv) : conv[j].role \notin {"candidate", "feedback"}

AnsweredLater(conv) ==
    LET q == LastInterviewerIndex(conv)
    IN /\ q # Null
       /\ \E j \in 1..Len(conv) :
              IsCandidate(conv[j]) /\ StampOf(conv[j]) > StampOf(conv[q + 1])

Without(log, k) == SubSeq(log, 1, k - 1) \o SubSeq(log, k + 1, Len(log))

\* C18: a call of addMessageToConversation, accepted or rejected, keeps every
\* turn of the log as it is (role, content, id, timestamp) and in its order:
\* the new log is the old one, or the old one with one turn put in.
C18_LogOnlyGrows ==
    [][hist'.op = "add"
       => \/ conversation' = conversation
          \/ \E k \in 1..Len(conversation') : Without(conversation', k) = conversation]_vars

\* a turn went into a log of two turns or more whose timestamps differ
C18_Witness ==
    /\ variant = "part_002"
    /\ hist.op = "add" /\ hist.changed
    /\ Len(conversation) >= 3
    /\ \E i \in 1..(Len(conversation) - 1) :
          StampOf(conversation[i]) < StampOf(conversation[i + 1])

\* C15: for the log and every turn that may have been current, the selection
\* of handleAudioPlaybackEnded and findNextAudioMessageIndex are -1 or a turn
\* whose needsAudioPlay is set, and -1 when no turn of the log has it set.
C15_SelectsNeedsAudio ==
    \A cur \in Indices(conversation) \cup {Null} :
        LET next == SelectNext(conversation, cur)
            first == findNextAudioMessageIndex(conversation)
        IN /\ next # Null => next \in NeedsAudio(conversation)
           /\ first # Null => first \in NeedsAudio(conversation)
           /\ NeedsAudio(conversation) = {} => next = Null /\ first = Null

\* the selection passes over a later turn that needs no audio
C15_Witness ==
    /\ hist.op = "add"
    /\ \E cur, i \in Indices(conversation) :
          /\ ~conversation[i + 1].needsAudioPlay
          /\ StampOf(conversation[i + 1]) > StampOf(conversation[cur + 1])
          /\ SelectNext(conversation, cur) \in NeedsAudio(conversation)
          /\ StampOf(conversation[SelectNext(conversation, cur) + 1])
                >= StampOf(conversation[i + 1])

(***************************************************************************)
(* The selection of handleAudioPlaybackEnded against its rule.             *)
(***************************************************************************)
\* C16: when a turn has finished playing, the selection made by
\* handleAudioPlaybackEnded is the turn that needs audio with the smallest
\* timestamp greater than the finished turn's, or else the first turn that
\* needs audio.
C16_SelectionFollowsRule ==
    (hist.op = "select" /\ hist.kind = "finished") => hist.selected = hist.expected

(***************************************************************************)
(* The order of the log against the order of arrival.                      *)
(***************************************************************************)
\* the turns of a log by their ids
IdsOf(log) == [i \in 1..Len(log) |-> log[i].messageId]

\* x, then y, are both added to log by part_002's addMessageToConversation
BothAccepted(log, x, y) ==
    /\ addMessageToConversation(log, x) # log
    /\ addMessageToConversation(addMessageToConversation(log, x), y)
          # addMessageToConversation(log, x)

\* C17: two turns of different timestamps that part_002's
\* addMessageToConversation accepts in either order of arrival stand in the
\* same order in the log whichever arrives first.
C17_OrderBySequence ==
    variant = "part_002" =>
        \A a, b \in AddInputs, now \in DateNow :
            LET x == Complete(a, now)
                y == Complete(b, now)
            IN (/\ x.timestamp # y.timestamp
                /\ BothAccepted(conversation, x, y)
                /\ BothAccepted(conversation, y, x))
               => IdsOf(addMessageToConversation(addMessageToConversation(conversation, x), y))
                    = IdsOf(addMessageToConversation(addMessageToConversation(conversation, y), x))

(***************************************************************************)
(* Voice capture and playback.                                             *)
(***************************************************************************)
\* C19: listeningForVoice and isSpeaking are never both true.
C19_CaptureGated == ~(listeningForVoice /\ isSpeaking)

\* capture is over: not listening, every recognizer has fired onend, no
\* transcript is waiting to be submitted, no recorder is starting, stopping or
\* uploading
CaptureOver ==
    ~listeningForVoice /\ rec.insts = <<>> /\ rec.submits = {} /\ Working(rec) = {}

\* C20: in continuous mode, speech heard before an end event that came while
\* isListening was true and no stop was asked for is in the transcript that
\* is delivered last.
C20_EarlierSpeechKept ==
    (CaptureOver /\ rec.cut # {}) => rec.cut \subseteq Range(rec.final)

\* C21: stopRecognition changes nothing while not recording, and a capture
\* by SpeechRecognition (no fallback to the MediaRecorder) that recognized
\* speech and was stopped once by the user has given exactly
\* one transcript to onTranscription when all of it is over, the calls of
\* stopRecognition and of the end handlers counted together.
C21_DeliveredOnce ==
    /\ ~rec.recording => stopRecognition(rec) = rec
    /\ (CaptureOver /\ rec.asked /\ rec.heard /\ ~rec.fallback) => rec.calls = 1


\* C22: in a browser without SpeechRecognition no recognizer is ever made (a
\* capture runs on the MediaRecorder), and when a capture is over for which
\* /api/transcribe returned a transcript with text in it, onTranscription has
\* been called exactly once, with that transcript (white space around it
\* aside).
C22_FallbackDelivers ==
    /\ ~rec.sr => rec.insts = <<>>
    /\ (~rec.sr /\ CaptureOver /\ Trim(rec.returned) # <<>>) =>
          (rec.calls = 1 /\ rec.final = Trim(rec.returned))


\* C23: once a recognizer has reported 'network' or 'not-allowed',
\* useFallbackRecorder is true in every later state and no later capture
\* start goes to startRecognition.
C23_FallbackSticks == rec.failed => (rec.fallback /\ ~rec.primaryAfter)

\* a capture was turned on after such an error, in a browser that has
\* SpeechRecognition, and a MediaRecorder is being started for it
C23_Witness ==
    /\ rec.sr /\ rec.failed /\ hist.op = "listen"
    /\ \E i \in 1..Len(rec.recorders) : rec.recorders[i].state = "starting"

\* C24: at most one stream obtained through getUserMedia is live in any
\* state, and none is live once stopRecognition has run for a stop of the
\* capture.
C24_OneStreamReleased ==
    /\ Cardinality(rec.streams) <= 1
    /\ (hist.op = "stop" /\ ~rec.recording) => rec.streams = {}

\* C25: when /api/transcribe has just failed and nothing of the capture is
\* left to run, the failed request was the retry of an earlier one (two
\* requests were made), the no-speech message is shown and no transcript was
\* delivered.
C25_RetriedOnce ==
    (CaptureOver /\ hist.op = "transcribed" /\ hist.kind = "fail") =>
        (rec.requests = 2 /\ rec.error = "no-speech" /\ rec.calls = 0)

\* C26: a playAudioOnce call that /api/voice answers with mock data has
\* called onPlaybackStart once and onPlaybackEnd not yet while its mock timer
\* is pending (no audio element plays), and has called each exactly once
\* when the timer has fired.
C26_MockStartThenEnd ==
    /\ \A i \in 1..Len(players) :
         players[i].pc = "mock" => (players[i].starts = 1 /\ players[i].ends = 0)
    /\ (hist.op = "done" /\ hist.kind = "mock") => hist.done = <<1, 1>>

\* the mock timer of a player has fired
C26_Witness == hist.op = "done" /\ hist.kind = "mock"

\* C27: a step of handleSubmitAnswer with a blank answer, of handleVoiceInput
\* with a blank transcript or of handleStartInterview without a company or a
\* job description leaves the log, the started flag, the question index, the
\* pending timers and requests and the number of requests made as they were,
\* and the first and the last of them set the error.
C27_InputRejected ==
    [][(hist'.kind = "blank" /\ hist'.op \in {"startInterview", "submitAnswer", "voiceInput"})
        => /\ conversation' = conversation
           /\ started' = started
           /\ timers' = timers
           /\ form'.currentQuestionIndex = form.currentQuestionIndex
           /\ form'.requests = form.requests
           /\ hist'.op = "startInterview" => form'.error = "missing"
           /\ hist'.op = "submitAnswer" => form'.error = "no-answer"]_vars

\* a white-space answer was submitted in a started interview whose log has
\* turns, and rejected
C27_Witness ==
    /\ hist.op = "submitAnswer" /\ hist.kind = "blank"
    /\ form.answer = <<Blank>> /\ conversation # <<>>

\* C28: a request to /api/voice whose text is not empty is answered with
\* status 200 and either audio/mpeg or the mock JSON (mockData true),
\* whatever the key, the provider and request.json() do.
C28_VoiceNeverFails ==
    (api.route = "voice" /\ api.req.text.length > 0) =>
        /\ api.res.status = 200
        /\ \/ api.res.contentType = "audio/mpeg"
           \/ api.res.contentType = "application/json" /\ api.res.mockData

\* with the key set, the provider answered a text that is not empty with a
\* status that is not 2xx
C28_Witness ==
    /\ api.route = "voice" /\ api.req.parse = "ok" /\ api.req.key
    /\ api.req.text.isString /\ api.req.text.length > 0
    /\ api.req.provider = "non2xx" /\ api.res.mockData

\* C29: a request to /api/chat with an answer and a question is answered
\* with status 200 and a feedback object that has a feedback text, strengths,
\* improvements and a score within 1..5, whatever the key and the provider do.
C29_ChatAlwaysFeedback ==
    (api.route = "chat" /\ api.req.parse = "ok"
        /\ api.req.userAnswer.length > 0 /\ api.req.question) =>
        /\ api.res.status = 200
        /\ api.res.feedback
        /\ api.res.strengths # Null /\ api.res.improvements # Null
        /\ api.res.score \in 1..5

\* C30: while the interview of part_003 is shown, currentQuestionIndex is
\* within 0..questions.length-1, and after a press of Next or Previous the
\* answer field shows the last text entered for the question now shown.
C30_AnswersPerQuestion ==
    started =>
        /\ form.currentQuestionIndex \in 0..(form.questions - 1)
        /\ hist.op \in {"next", "prev"} =>
              form.answer = form.entered[form.currentQuestionIndex + 1]

(***************************************************************************)
(* C31: whenever a question is accepted while the last turn of the log is  *)
(* a feedback turn, the stored timestamp of the question is at least the   *)
(* timestamp of that feedback plus 2000, and the question is positioned    *)
(* after that feedback in the resulting log.                               *)
(***************************************************************************)
C31_QuestionAfterFeedback ==
    [][(/\ variant = "part_002"
        /\ hist'.op = "add" /\ hist'.kind = "question"
        /\ conversation' # conversation
        /\ Len(conversation) > 0
        /\ conversation[Len(conversation)].role = "feedback")
       => \E i, j \in 1..Len(conversation') :
            /\ IsQuestion(conversation'[i])
            /\ \A k \in 1..Len(conversation) :
                  conversation[k].messageId # conversation'[i].messageId
            /\ conversation'[j] = conversation[Len(conversation)]
            /\ conversation'[i].timestamp
                  >= StampOf(conversation[Len(conversation)]) + FeedbackGap
            /\ j < i]_vars

\* a question whose timestamp was moved stands right after the feedback
C31_Witness ==
    /\ variant = "part_002"
    /\ hist.op = "add" /\ hist.kind = "question" /\ hist.adjusted
    /\ Len(conversation) >= 3
    /\ IsQuestion(conversation[Len(conversation)])
    /\ conversation[Len(conversation) - 1].role = "feedback"
    /\ conversation[Len(conversation)].timestamp
          = conversation[Len(conversation) - 1].timestamp + FeedbackGap


(***************************************************************************)
(* C36: whenever lastAudioMessageIdRef.current is not null it is an index  *)
(* of the current log, and the turn at that index has needsAudioPlay set.  *)
(***************************************************************************)
C36_CurrentIndexValid ==
    lastAudioMessageIdRef # Null
        => /\ lastAudioMessageIdRef \in Indices(conversation)
           /\ conversation[lastAudioMessageIdRef + 1].needsAudioPlay


(***************************************************************************)
(* C35: audio is played in log order: when the audio of a turn starts for  *)
(* the first time, no turn positioned after it in the log has had its      *)
(* audio started already.                                                  *)
(***************************************************************************)
C35_AudioInLogOrder ==
    [][(hist'.op = "started" /\ hist'.startedTurns # hist.startedTurns)
       => \A i, j \in 1..Len(conversation') :
            (/\ i < j
             /\ conversation'[i].messageId \in hist'.startedTurns \ hist.startedTurns)
                => conversation'[j].messageId \notin hist.startedTurns]_vars


(***************************************************************************)
(* C34: every turn accepted into the log with needsAudioPlay set has its   *)
(* audio started later in that interview, when timers, effects and         *)
(* playback callbacks are scheduled fairly, unless the interview is        *)
(* restarted.  (While the first question is still to come nothing is       *)
(* asked: the bound of the log may hold its timer back.)                   *)
(***************************************************************************)
AudioTurnIds ==
    {SessionId(id, s) : id \in {WelcomeId, FirstQuestionId} \cup {GenerateId(m) : m \in PlayInputs},
                        s \in 1..MaxSessions}

FirstQuestionToCome == \E t \in timers : t.kind = "firstQuestion"

C34_AudioEventuallyStarts ==
    \A id \in AudioTurnIds :
        (\E i \in 1..Len(conversation) :
            conversation[i].messageId = id /\ conversation[i].needsAudioPlay)
        ~> (id \in hist.startedTurns \/ ~started \/ FirstQuestionToCome)



(***************************************************************************)
(* C38: at most one feedback request to /api/chat is in flight at any      *)
(* time, whether the answers were typed or spoken.                         *)
(***************************************************************************)
C38_OneChatRequest ==
    Cardinality({t \in timers : t.kind = "chat"}) <= 1


(***************************************************************************)
(* Properties of the answer flow of part_002.                              *)
(***************************************************************************)
\* the turns whose addMessageToConversation call was put off and is to be
\* retried
Deferred == {t.msg : t \in {r \in timers : r.kind = "retry"}}

\* C32: an interviewer or feedback turn that addMessageToConversation defers
\* because processingFeedback is set is delivered in the end: once
\* processingFeedback is cleared the retry appends the turn or a guard
\* rejects it, and no retry is pending any more.
C32_DeferredDelivered ==
    (Deferred # {} /\ ~processingFeedback) ~> (Deferred = {})

\* the feedback turn made for the answer a is in the log, after a candidate
\* turn that is the answer or, the answer having been rejected as a repeat,
\* holds its text
FeedbackAfter(a) ==
    \E i, j \in 1..Len(conversation) :
        /\ i < j
        /\ conversation[i].role = "candidate"
        /\ conversation[i].messageId = a.answer \/ conversation[i].content = a.text
        /\ conversation[j].role = "feedback"
        /\ conversation[j].messageId = a.feedback

\* the answers whose /api/chat request succeeded and whose feedback turn is
\* not in the log
AwaitingFeedback == {a \in hist.answered : ~FeedbackAfter(a)}

\* C33: every answer submitted, typed or spoken, whose /api/chat request
\* succeeds has a feedback turn positioned after it in the log in the end,
\* also when its text equals an earlier answer or the feedback text equals
\* an earlier feedback.
C33_FeedbackFollows ==
    (AwaitingFeedback # {}) ~> (AwaitingFeedback = {})

\* C37: while an interview is in progress currentQuestionIndex is the number
\* of question turns of the log minus one.
C37_CounterTracksLog ==
    (variant = "part_002" /\ started)
        => form.currentQuestionIndex
              = Cardinality({i \in 1..Len(conversation) : IsQuestion(conversation[i])}) - 1

\* C39: the busy flags always clear: processingFeedback and
\* isSubmittingAnswer, once set by the submission of an answer, typed or
\* spoken, are false again later, whether the request succeeds or fails.
C39_BusyFlagsClear ==
    /\ processingFeedback ~> ~processingFeedback
    /\ isSubmittingAnswer ~> ~isSubmittingAnswer

\* both flags were set by an answer and are clear after its follow-up question
C39_Witness ==
    /\ hist.op = "release" /\ hist.answered # {}
    /\ ~processingFeedback /\ ~isSubmittingAnswer
    /\ form.currentQuestionIndex > 0

====
